---- MODULE Spec2Model ----
(***************************************************************************)
(* A model of the rs-tiled parser (src/src/*.rs): the GID -> tileset       *)
(* lookup, the GID flip-flag decode of Tile::new, the property value       *)
(* coercion, the tile data decoder and the recursive-descent parse of a    *)
(* token stream into a Map.                                                *)
(*                                                                         *)
(* Unsigned 32-bit values are pairs <<hi, lo>> of 16-bit limbs, so that    *)
(* the whole u32 range is represented exactly.                             *)
(***************************************************************************)
EXTENDS Integers, Sequences, FiniteSets, TLC

VARIABLES
    \* Map::get_tileset_by_gid
    tilesets,       \* self.tilesets: the first_gid of each tileset, in scan order
    gid,            \* the argument
    scan_i,         \* position of the iterator over self.tilesets
    maximum_gid,    \* the local maximum_gid: i32, as its 32-bit pattern
    maximum_ts,     \* the local maximum_ts: 0 is None, k is Some(&tilesets[k])
    gid_pc,         \* "idle" | "scan" | "done"
    \* Tile::new
    raw_id,         \* the value of the id attribute, parsed as u32
    tile,           \* the Tile built from it
    tile_pc,        \* "idle" | "new" | "done"
    \* the `property` handler of parse_properties and PropertyValue::new
    prop_attrs,     \* the attributes of the property element
    prop_result,    \* what the handler returns
    prop_pc,        \* "idle" | "new" | "done"
    \* the parse entry points
    scenario,       \* what the session is about: its kind, grid and first_gid
    calls,          \* the calls of the session: entry point, reader, path, first_gid
    fs,             \* the files: a function from paths to documents
    results,        \* for each call that ended: its result, events pulled, files opened
    stack,          \* the frames of the active constructors, innermost last
    parser,         \* the EventReader over the reader of the call
    tileset_parser, \* the EventReader over a tileset file
    opened          \* the paths given to File::open by the call so far

gidVars == <<tilesets, gid, scan_i, maximum_gid, maximum_ts, gid_pc>>
tileVars == <<raw_id, tile, tile_pc>>
propVars == <<prop_attrs, prop_result, prop_pc>>
parseVars == <<scenario, calls, fs, results, stack, parser, tileset_parser, opened>>
vars == <<gidVars, tileVars, propVars, parseVars>>

----------------------------------------------------------------------------
(* 32-bit arithmetic on limb pairs *)

Limb == 65536

U32Values == (0 .. Limb - 1) \X (0 .. Limb - 1)

\* a <= b on u32
U32Le(a, b) == a[1] < b[1] \/ (a[1] = b[1] /\ a[2] <= b[2])

\* `x as i32`: the same 32 bits read as a signed number; an i32 is kept as
\* <<sign, hi, lo>> with sign 1 for the negative half, so that the signed order
\* is the lexicographic order of <<1 - sign, hi, lo>>
AsI32(x) == <<IF x[1] >= Limb \div 2 THEN 1 ELSE 0, x[1], x[2]>>

\* the i32 literal -1
MinusOne == <<1, Limb - 1, Limb - 1>>

\* a > b on i32
I32Gt(a, b) ==
    \/ a[1] < b[1]
    \/ a[1] = b[1] /\ a[2] > b[2]
    \/ a[1] = b[1] /\ a[2] = b[2] /\ a[3] > b[3]

RECURSIVE BitAnd16(_, _, _)
BitAnd16(a, b, n) ==
    IF n = 0 THEN 0
    ELSE (a % 2) * (b % 2) + 2 * BitAnd16(a \div 2, b \div 2, n - 1)

\* a & b on u32
U32And(a, b) == <<BitAnd16(a[1], b[1], 16), BitAnd16(a[2], b[2], 16)>>

\* !a on u32
U32Not(a) == <<Limb - 1 - a[1], Limb - 1 - a[2]>>

\* a >> 28 on u32
U32Shr28(a) == <<0, a[1] \div 4096>>

----------------------------------------------------------------------------
(* Map::get_tileset_by_gid, src/src/map.rs:133-143 *)

MaxTilesets == 3

FirstGids ==
    { <<0, 0>>, <<0, 1>>, <<0, 50>>, <<0, 120>>,
      <<32767, 65535>>, <<32768, 0>>, <<65535, 65535>> }

Gids ==
    { <<0, 0>>, <<0, 1>>, <<0, 49>>, <<0, 50>>, <<0, 119>>, <<0, 200>>,
      <<32767, 65535>>, <<32768, 0>>, <<65535, 65535>> }

TilesetLists == UNION { [1 .. n -> FirstGids] : n \in 0 .. MaxTilesets }

InitGid ==
    /\ tilesets \in TilesetLists
    /\ gid \in Gids
    /\ scan_i = 1
    /\ maximum_gid = MinusOne
    /\ maximum_ts = 0
    /\ gid_pc = "scan"

IdleGid ==
    /\ tilesets = <<>>
    /\ gid = <<0, 0>>
    /\ scan_i = 1
    /\ maximum_gid = MinusOne
    /\ maximum_ts = 0
    /\ gid_pc = "idle"

\* the condition of the loop body, map.rs:137
SelectsGe(first_gid, max_gid, g) ==
    /\ ~ I32Gt(max_gid, AsI32(first_gid))
    /\ U32Le(first_gid, g)

Selects(first_gid, max_gid, g) ==
    /\ I32Gt(AsI32(first_gid), max_gid)
    /\ U32Le(first_gid, g)

\* one iteration of `for tileset in self.tilesets.iter()`
ScanTileset ==
    /\ gid_pc = "scan"
    /\ scan_i <= Len(tilesets)
    /\ IF Selects(tilesets[scan_i], maximum_gid, gid)
       THEN /\ maximum_gid' = AsI32(tilesets[scan_i])
            /\ maximum_ts' = scan_i
       ELSE UNCHANGED <<maximum_gid, maximum_ts>>
    /\ scan_i' = scan_i + 1
    /\ UNCHANGED <<tilesets, gid, gid_pc>>
    /\ UNCHANGED <<tileVars, propVars, parseVars>>

\* the iterator is exhausted: the function returns maximum_ts
ReturnMaximumTs ==
    /\ gid_pc = "scan"
    /\ scan_i > Len(tilesets)
    /\ gid_pc' = "done"
    /\ UNCHANGED <<tilesets, gid, scan_i, maximum_gid, maximum_ts>>
    /\ UNCHANGED <<tileVars, propVars, parseVars>>

NextGid == ScanTileset \/ ReturnMaximumTs

----------------------------------------------------------------------------
(* Tile::new, src/src/tile.rs:21-83: the decode of the id attribute *)

FLIPPED_HORIZONTALLY_FLAG == <<0, 8>>
FLIPPED_VERTICALLY_FLAG == <<0, 4>>
FLIPPED_DIAGONALLY_FLAG == <<0, 2>>
ALL_FLIP_FLAGS == <<0, 14>>

\* the three highest-order bits of a u32 and their combinations, with ids
\* below 2^29 in the low bits
FlagBits == { 0, 8192, 16384, 24576, 32768, 40960, 49152, 57344 }
LowIds ==
    { <<0, 0>>, <<0, 1>>, <<0, 2>>, <<0, 4>>, <<0, 5>>, <<0, 8>>, <<0, 14>>,
      <<0, 15>>, <<0, 16>>, <<1, 0>>, <<4096, 5>>, <<8191, 65535>> }
RawIds == { <<f + id[1], id[2]>> : f \in FlagBits, id \in LowIds }

NoTile == [id |-> <<0, 0>>, flip_h |-> FALSE, flip_v |-> FALSE]

InitTile ==
    /\ raw_id \in RawIds
    /\ tile = NoTile
    /\ tile_pc = "new"

IdleTile ==
    /\ raw_id = <<0, 0>>
    /\ tile = NoTile
    /\ tile_pc = "idle"

\* tile.rs:44-48
TileFlags(id) == U32Shr28(U32And(id, ALL_FLIP_FLAGS))
TileId(id) == U32And(id, U32Not(ALL_FLIP_FLAGS))
TileDiagon(id) ==
    U32And(TileFlags(id), FLIPPED_DIAGONALLY_FLAG) = FLIPPED_DIAGONALLY_FLAG
TileFlipH(id) ==
    (U32And(TileFlags(id), FLIPPED_HORIZONTALLY_FLAG) = FLIPPED_HORIZONTALLY_FLAG)
        # TileDiagon(id)
TileFlipV(id) ==
    (U32And(TileFlags(id), FLIPPED_VERTICALLY_FLAG) = FLIPPED_VERTICALLY_FLAG)
        # TileDiagon(id)

TileNew ==
    /\ tile_pc = "new"
    /\ tile' = [id |-> TileId(raw_id),
                flip_h |-> TileFlipH(raw_id),
                flip_v |-> TileFlipV(raw_id)]
    /\ tile_pc' = "done"
    /\ UNCHANGED raw_id
    /\ UNCHANGED <<gidVars, propVars, parseVars>>

NextTile == TileNew

----------------------------------------------------------------------------
(* Strings that the code parses are sequences of characters; strings that it
   only compares or stores are atoms.  Option<T>: None is <<>>, Some(v) is <<v>> *)

None == <<>>
Some(v) == <<v>>
IsSome(o) == o # <<>>
Unwrap(o) == o[1]
UnwrapOr(o, d) == IF o = <<>> THEN d ELSE o[1]

Digits == {"0", "1", "2", "3", "4", "5", "6", "7", "8", "9"}
HexLetters == {"a", "b", "c", "d", "e", "f", "A", "B", "C", "D", "E", "F"}

DigitVal(c) ==
    CASE c = "0" -> 0 [] c = "1" -> 1 [] c = "2" -> 2 [] c = "3" -> 3
      [] c = "4" -> 4 [] c = "5" -> 5 [] c = "6" -> 6 [] c = "7" -> 7
      [] c = "8" -> 8 [] c = "9" -> 9
      [] c \in {"a", "A"} -> 10 [] c \in {"b", "B"} -> 11
      [] c \in {"c", "C"} -> 12 [] c \in {"d", "D"} -> 13
      [] c \in {"e", "E"} -> 14 [] c \in {"f", "F"} -> 15

IsDigitOf(c, radix) ==
    c \in Digits \/ (radix = 16 /\ c \in HexLetters)

\* the length in bytes of a character's UTF-8 encoding; "e_acute" stands for a
\* two-byte character
ByteLen(c) == IF c = "e_acute" THEN 2 ELSE 1

RECURSIVE StrLen(_)
StrLen(s) == IF s = <<>> THEN 0 ELSE ByteLen(Head(s)) + StrLen(Tail(s))

\* acc * radix + d on u32, None on overflow (checked_mul, checked_add)
MulAdd(acc, radix, d) ==
    LET lo == acc[2] * radix + d
        hi == acc[1] * radix + lo \div Limb
    IN  IF hi >= Limb THEN None ELSE Some(<<hi, lo % Limb>>)

RECURSIVE AccDigits(_, _, _)
AccDigits(s, radix, acc) ==
    IF s = <<>> THEN Some(acc)
    ELSE IF ~ IsDigitOf(Head(s), radix) THEN None
    ELSE LET n == MulAdd(acc, radix, DigitVal(Head(s)))
         IN  IF n = None THEN None ELSE AccDigits(Tail(s), radix, Unwrap(n))

\* u32::from_str_radix(s, radix) and str::parse::<u32> (radix 10): an optional
\* leading '+', then one or more digits, no overflow
ParseU32Radix(s, radix) ==
    IF s = <<>> THEN None
    ELSE IF Head(s) \in {"+", "-"} /\ Len(s) = 1 THEN None
    ELSE IF Head(s) = "+" THEN AccDigits(Tail(s), radix, <<0, 0>>)
    ELSE AccDigits(s, radix, <<0, 0>>)

ParseU32(s) == ParseU32Radix(s, 10)

\* str::parse::<i32>: an optional sign, then digits, within -2^31 .. 2^31 - 1;
\* the value is [neg, mag] with mag the magnitude as a u32
ParseI32(s) ==
    IF s = <<>> THEN None
    ELSE IF Head(s) \in {"+", "-"} /\ Len(s) = 1 THEN None
    ELSE LET neg == Head(s) = "-"
             m == AccDigits(IF Head(s) \in {"+", "-"} THEN Tail(s) ELSE s, 10, <<0, 0>>)
         IN  IF m = None THEN None
             ELSE IF neg /\ ~ U32Le(Unwrap(m), <<32768, 0>>) THEN None
             ELSE IF ~ neg /\ ~ U32Le(Unwrap(m), <<32767, 65535>>) THEN None
             ELSE Some([neg |-> neg /\ Unwrap(m) # <<0, 0>>, mag |-> Unwrap(m)])

\* str::parse::<bool>
ParseBool(s) ==
    IF s = <<"t", "r", "u", "e">> THEN Some(TRUE)
    ELSE IF s = <<"f", "a", "l", "s", "e">> THEN Some(FALSE)
    ELSE None

RECURSIVE DigitRun(_)
\* the length of the longest prefix of decimal digits
DigitRun(s) ==
    IF s = <<>> \/ Head(s) \notin Digits THEN 0 ELSE 1 + DigitRun(Tail(s))

Drop(s, n) == SubSeq(s, n + 1, Len(s))
Take(s, n) == SubSeq(s, 1, n)

\* a string without its leading sign, and whether it is one or more digits
Unsigned(s) == IF s # <<>> /\ Head(s) \in {"+", "-"} THEN Tail(s) ELSE s
AllDigits(s) == s # <<>> /\ DigitRun(s) = Len(s)

\* what follows the fraction of an f32 literal is nothing or an exponent
F32Exponent(rest) ==
    rest = <<>> \/ (Head(rest) \in {"e", "E"} /\ AllDigits(Unsigned(Tail(rest))))

\* the literal of integer digits int, fraction digits frac and the rest
F32Parts(neg, int, frac, rest) ==
    IF int = <<>> /\ frac = <<>> THEN None
    ELSE IF ~ F32Exponent(rest) THEN None
    ELSE Some([neg |-> neg, int |-> int, frac |-> frac,
               exp |-> IF rest = <<>> THEN <<>> ELSE Tail(rest)])

\* the literal after its integer digits
F32Fraction(neg, int, rest) ==
    IF rest # <<>> /\ Head(rest) = "."
    THEN F32Parts(neg, int, Take(Tail(rest), DigitRun(Tail(rest))),
                  Drop(Tail(rest), DigitRun(Tail(rest))))
    ELSE F32Parts(neg, int, <<>>, rest)

\* str::parse::<f32> on the decimal grammar
\*   [+-] (digits [. digits*] | . digits+) [(e|E) [+-] digits+]
\* (the words inf, infinity and nan are not in the alphabet of the model); the
\* value is kept as the literal's parts [neg, int, frac, exp]
F32Unsigned(neg, body) ==
    F32Fraction(neg, Take(body, DigitRun(body)), Drop(body, DigitRun(body)))
ParseF32(s) == F32Unsigned(s # <<>> /\ Head(s) = "-", Unsigned(s))

----------------------------------------------------------------------------
(* PropertyValue::new, src/src/property.rs:16-43, and the `property` handler of
   parse_properties, property.rs:51-67 *)

Ok(v) == [tag |-> "Ok", val |-> v]
Err(kind, msg) == [tag |-> "Err", kind |-> kind, msg |-> msg]
\* an abnormal end of the call (a Rust panic)
Panic(msg) == [tag |-> "Panic", msg |-> msg]
IsOk(r) == r.tag = "Ok"
IsErr(r) == r.tag = "Err"

\* &value[1..]: a slice from byte 1, which must be a character boundary
SliceFrom1(value) ==
    IF ByteLen(Head(value)) = 1 THEN Some(Tail(value)) ELSE None

ColorArm(value) ==
    IF SliceFrom1(value) = None THEN Panic("byte index 1 is not a char boundary")
    ELSE LET c == ParseU32Radix(Unwrap(SliceFrom1(value)), 16)
         IN  IF IsSome(c) THEN Ok([kind |-> "ColorValue", val |-> Unwrap(c)])
             ELSE Err("Other", <<"Improperly formatted color property">>)

\* the string arm guarded like the color arm
StringArmGuarded(value) ==
    IF StrLen(value) > 1 THEN Ok([kind |-> "StringValue", val |-> value])
    ELSE Err("Other", <<"Unknown property type", "string">>)

StringArm(value) == Ok([kind |-> "StringValue", val |-> value])

PropertyValueNew(property_type, value) ==
    CASE property_type = "bool" ->
            IF IsSome(ParseBool(value))
            THEN Ok([kind |-> "BoolValue", val |-> Unwrap(ParseBool(value))])
            ELSE Err("Other", <<"ParseBoolError">>)
      [] property_type = "float" ->
            IF IsSome(ParseF32(value))
            THEN Ok([kind |-> "FloatValue", val |-> Unwrap(ParseF32(value))])
            ELSE Err("Other", <<"ParseFloatError">>)
      [] property_type = "int" ->
            IF IsSome(ParseI32(value))
            THEN Ok([kind |-> "IntValue", val |-> Unwrap(ParseI32(value))])
            ELSE Err("Other", <<"ParseIntError">>)
      [] property_type = "color" /\ StrLen(value) > 1 -> ColorArm(value)
      [] property_type = "string" -> StringArm(value)
      [] OTHER -> Err("Other", <<"Unknown property type", property_type>>)

\* get_attrs!, src/src/macros.rs:8-27: an attribute list is a function from the
\* attribute names present to their values; a field's result is its coercion
\* applied to the value, None when the attribute is absent
Attr(attrs, name) == IF name \in DOMAIN attrs THEN Some(attrs[name]) ELSE None

\* the closure of parse_properties: the result is the (key, value) pair inserted
PropertyHandler(attrs) ==
    LET property_type == Attr(attrs, "type")
        key == Attr(attrs, "name")
        value == Attr(attrs, "value")
    IN  IF ~ (IsSome(key) /\ IsSome(value))
        THEN Err("MalformedAttributes", <<"property must have a name and a value">>)
        ELSE LET t == UnwrapOr(property_type, "string")
                 v == PropertyValueNew(t, Unwrap(value))
             IN  IF IsOk(v) THEN Ok(<<Unwrap(key), v.val>>) ELSE v

MaxValueLen == 2

ValueAlphabet == {"0", "1", "9", "a", "f", "g", "#", "+", "-", ".", "e", "e_acute"}

ShortValues == UNION { [1 .. n -> ValueAlphabet] : n \in 0 .. MaxValueLen }

SampleValues ==
    { <<"t", "r", "u", "e">>, <<"f", "a", "l", "s", "e">>, <<"T", "r", "u", "e">>,
      <<"1", "2", "3">>, <<"-", "1", "2", "3">>, <<"1", ".", "5", "e", "-", "2">>,
      <<"2", "1", "4", "7", "4", "8", "3", "6", "4", "7">>,
      <<"2", "1", "4", "7", "4", "8", "3", "6", "4", "8">>,
      <<"-", "2", "1", "4", "7", "4", "8", "3", "6", "4", "8">>,
      <<"#", "1", "1", "2", "2", "3", "3">>,
      <<"#", "F", "F", "f", "f", "0", "0">>,
      <<"x", "1", "1", "2", "2", "3", "3">>,
      <<"1", "1", "2", "2", "3", "3">>,
      <<"#", "1", "1", "2", "2", "3">>,
      <<"#", "1", "1", "2", "2", "3", "3", "4">>,
      <<"#", "1", "1", "2", "2", "3", "3", "4", "4">>,
      <<"#", "1", "1", "2", "2", "3", "3", "4", "4", "5">>,
      <<"#", "g", "g", "g", "g", "g", "g">>,
      <<"#", "1", "1", "2", "2", "3", " ">> }

PropValues == ShortValues \cup SampleValues

PropTypes == {"bool", "float", "int", "color", "string", "bogus", "", "Color", "file"}

PropAttrs ==
    { [x \in {"name", "value"} |-> IF x = "name" THEN "k" ELSE v] : v \in PropValues }
    \cup { [x \in {"name", "value", "type"} |->
              IF x = "name" THEN "k" ELSE IF x = "type" THEN t ELSE v] :
           v \in PropValues, t \in PropTypes }
    \cup { [x \in {"name"} |-> "k"], [x \in {"value"} |-> <<"1">>], <<>> }

NoResult == [tag |-> "None"]

InitProp ==
    /\ prop_attrs \in PropAttrs
    /\ prop_result = NoResult
    /\ prop_pc = "new"

IdleProp ==
    /\ prop_attrs = <<>>
    /\ prop_result = NoResult
    /\ prop_pc = "idle"

Property ==
    /\ prop_pc = "new"
    /\ prop_result' = PropertyHandler(prop_attrs)
    /\ prop_pc' = "done"
    /\ UNCHANGED prop_attrs
    /\ UNCHANGED <<gidVars, tileVars, parseVars>>

NextProp == Property

----------------------------------------------------------------------------
(* Attribute coercions and the get_attrs! blocks of the entity constructors *)

RECURSIVE StripLeadingZeros(_)
StripLeadingZeros(s) ==
    IF s # <<>> /\ Head(s) = "0" THEN StripLeadingZeros(Tail(s)) ELSE s

RECURSIVE StripTrailingZeros(_)
StripTrailingZeros(s) ==
    IF s # <<>> /\ s[Len(s)] = "0" THEN StripTrailingZeros(Take(s, Len(s) - 1)) ELSE s

\* an f32 is kept as the decimal it was written as, without the leading zeros of
\* its integer part and the trailing zeros of its fraction (1, 1.0 and 01.00 are
\* one value); the rounding to 24 bits of mantissa is not modelled
F32Of(lit) ==
    [neg |-> lit.neg, int |-> StripLeadingZeros(lit.int),
     frac |-> StripTrailingZeros(lit.frac), exp |-> lit.exp]

ParseFloat(s) == IF ParseF32(s) = None THEN None ELSE Some(F32Of(Unwrap(ParseF32(s))))

F32Zero == [neg |-> FALSE, int |-> <<>>, frac |-> <<>>, exp |-> <<>>]
F32One == [neg |-> FALSE, int |-> <<"1">>, frac |-> <<>>, exp |-> <<>>]

\* Orientation::from_str, map.rs:214-226
ParseOrientation(s) ==
    IF s \in {"orthogonal", "isometric", "staggered", "hexagonal"} THEN Some(s) ELSE None

\* u8::from_str_radix(s, 16)
ParseU8Hex(s) ==
    LET v == ParseU32Radix(s, 16)
    IN  IF IsSome(v) /\ U32Le(Unwrap(v), <<0, 255>>) THEN Some(Unwrap(v)[2]) ELSE None

\* Color::from_str, color.rs:15-31 (values are ASCII in the model)
ParseColor(v) ==
    LET s == IF v # <<>> /\ Head(v) = "#" THEN Tail(v) ELSE v
    IN  IF Len(s) # 6 THEN None
        ELSE LET r == ParseU8Hex(SubSeq(s, 1, 2))
                 g == ParseU8Hex(SubSeq(s, 3, 4))
                 b == ParseU8Hex(SubSeq(s, 5, 6))
             IN  IF IsSome(r) /\ IsSome(g) /\ IsSome(b)
                 THEN Some([red |-> Unwrap(r), green |-> Unwrap(g), blue |-> Unwrap(b)])
                 ELSE None

\* |v| v.parse().ok().map(|x: i32| x == 1)
ParseVisible(s) ==
    IF ParseI32(s) = None THEN None
    ELSE Some(Unwrap(ParseI32(s)) = [neg |-> FALSE, mag |-> <<0, 1>>])

\* an optional or required field of get_attrs!: the coercion applied to the
\* attribute's value when the attribute is present
Coerce(attrs, name, F(_)) == IF name \in DOMAIN attrs THEN F(attrs[name]) ELSE None

Malformed(msg) == Err("MalformedAttributes", <<msg>>)

\* Map::new, map.rs:69-83
MapAttrs(attrs) ==
    LET c == Coerce(attrs, "backgroundcolor", ParseColor)
        v == Coerce(attrs, "version", Some)
        o == Coerce(attrs, "orientation", ParseOrientation)
        w == Coerce(attrs, "width", ParseU32)
        h == Coerce(attrs, "height", ParseU32)
        tw == Coerce(attrs, "tilewidth", ParseU32)
        th == Coerce(attrs, "tileheight", ParseU32)
    IN  IF ~ (IsSome(v) /\ IsSome(o) /\ IsSome(w) /\ IsSome(h) /\ IsSome(tw) /\ IsSome(th))
        THEN Malformed("map must have a version, width and height with correct types")
        ELSE Ok([c |-> c, v |-> Unwrap(v), o |-> Unwrap(o), w |-> Unwrap(w),
                 h |-> Unwrap(h), tw |-> Unwrap(tw), th |-> Unwrap(th)])

\* Tileset::new_internal, tileset.rs:34-47
TilesetInternalAttrs(attrs) ==
    LET spacing == Coerce(attrs, "spacing", ParseU32)
        margin == Coerce(attrs, "margin", ParseU32)
        first_gid == Coerce(attrs, "firstgid", ParseU32)
        name == Coerce(attrs, "name", Some)
        width == Coerce(attrs, "tilewidth", ParseU32)
        height == Coerce(attrs, "tileheight", ParseU32)
    IN  IF ~ (IsSome(first_gid) /\ IsSome(name) /\ IsSome(width) /\ IsSome(height))
        THEN Malformed("tileset must have a firstgid, name tile width and height with correct types")
        ELSE Ok([spacing |-> spacing, margin |-> margin, first_gid |-> Unwrap(first_gid),
                 name |-> Unwrap(name), width |-> Unwrap(width), height |-> Unwrap(height)])

\* Tileset::new_reference, tileset.rs:78-86
TilesetReferenceAttrs(attrs) ==
    LET first_gid == Coerce(attrs, "firstgid", ParseU32)
        source == Coerce(attrs, "source", Some)
    IN  IF ~ (IsSome(first_gid) /\ IsSome(source))
        THEN Malformed("tileset must have a firstgid, name tile width and height with correct types")
        ELSE Ok([first_gid |-> Unwrap(first_gid), source |-> Unwrap(source)])

\* the first_gid of an external tileset element read from its own attribute
ExternalFirstGidFromAttr(first_gid, attrs) ==
    UnwrapOr(Coerce(attrs, "firstgid", ParseU32), <<0, 1>>)

\* the first_gid of an external tileset: the caller's, tileset.rs:156
ExternalFirstGid(first_gid, attrs) == first_gid

\* Tileset::parse_external_tileset, tileset.rs:128-140
TilesetExternalAttrs(first_gid, attrs) ==
    LET spacing == Coerce(attrs, "spacing", ParseU32)
        margin == Coerce(attrs, "margin", ParseU32)
        name == Coerce(attrs, "name", Some)
        width == Coerce(attrs, "tilewidth", ParseU32)
        height == Coerce(attrs, "tileheight", ParseU32)
    IN  IF ~ (IsSome(name) /\ IsSome(width) /\ IsSome(height))
        THEN Malformed("tileset must have a firstgid, name tile width and height with correct types")
        ELSE Ok([spacing |-> spacing, margin |-> margin,
                 first_gid |-> ExternalFirstGid(first_gid, attrs),
                 name |-> Unwrap(name), width |-> Unwrap(width), height |-> Unwrap(height)])

\* Image::new, image.rs:19-30
ImageAttrs(attrs) ==
    LET c == Coerce(attrs, "trans", ParseColor)
        src == Coerce(attrs, "source", Some)
        w == Coerce(attrs, "width", ParseI32)
        h == Coerce(attrs, "height", ParseI32)
    IN  IF ~ (IsSome(src) /\ IsSome(w) /\ IsSome(h))
        THEN Malformed("image must have a source, width and height with correct types")
        ELSE Ok([source |-> Unwrap(src), width |-> Unwrap(w), height |-> Unwrap(h),
                 transparent_color |-> c])

\* Tile::new, tile.rs:32-48
TileAttrs(attrs) ==
    LET tile_type == Coerce(attrs, "type", Some)
        probability == Coerce(attrs, "probability", ParseFloat)
        id == Coerce(attrs, "id", ParseU32)
    IN  IF ~ IsSome(id)
        THEN Malformed("tile must have an id with the correct type")
        ELSE Ok([tile_type |-> tile_type, probability |-> probability,
                 id |-> TileId(Unwrap(id)), flip_h |-> TileFlipH(Unwrap(id)),
                 flip_v |-> TileFlipV(Unwrap(id))])

\* Frame::new, tile.rs:93-107
FrameNew(attrs) ==
    LET tile_id == Coerce(attrs, "tileid", ParseU32)
        duration == Coerce(attrs, "duration", ParseU32)
    IN  IF ~ (IsSome(tile_id) /\ IsSome(duration))
        THEN Malformed("A frame must have tileid and duration")
        ELSE Ok([tile_id |-> Unwrap(tile_id), duration |-> Unwrap(duration)])

\* a Layer::new whose opacity is required to be a number when it is given
LayerAttrsStrict(attrs) ==
    LET o == Coerce(attrs, "opacity", ParseFloat)
        v == Coerce(attrs, "visible", ParseVisible)
        n == Coerce(attrs, "name", Some)
    IN  IF ~ IsSome(n) \/ ("opacity" \in DOMAIN attrs /\ ~ IsSome(o))
        THEN Malformed("layer must have a name")
        ELSE Ok([o |-> o, v |-> v, n |-> Unwrap(n)])

\* Layer::new, layer.rs:27-37
LayerAttrs(attrs) ==
    LET o == Coerce(attrs, "opacity", ParseFloat)
        v == Coerce(attrs, "visible", ParseVisible)
        n == Coerce(attrs, "name", Some)
    IN  IF ~ IsSome(n) THEN Malformed("layer must have a name")
        ELSE Ok([o |-> o, v |-> v, n |-> Unwrap(n)])

\* ImageLayer::new, layer.rs:80-91
ImageLayerAttrs(attrs) ==
    LET o == Coerce(attrs, "opacity", ParseFloat)
        v == Coerce(attrs, "visible", ParseVisible)
        ox == Coerce(attrs, "offsetx", ParseFloat)
        oy == Coerce(attrs, "offsety", ParseFloat)
        n == Coerce(attrs, "name", Some)
    IN  IF ~ IsSome(n) THEN Malformed("layer must have a name")
        ELSE Ok([o |-> o, v |-> v, ox |-> ox, oy |-> oy, n |-> Unwrap(n)])

\* ObjectGroup::new, object.rs:28-38: no required field
ObjectGroupAttrs(attrs) ==
    Ok([o |-> Coerce(attrs, "opacity", ParseFloat),
        v |-> Coerce(attrs, "visible", ParseVisible),
        c |-> Coerce(attrs, "color", ParseColor),
        n |-> Coerce(attrs, "name", Some)])

\* Object::new, object.rs:84-109
ObjectAttrs(attrs) ==
    LET id == Coerce(attrs, "id", ParseU32)
        g == Coerce(attrs, "gid", ParseU32)
        n == Coerce(attrs, "name", Some)
        t == Coerce(attrs, "type", Some)
        w == Coerce(attrs, "width", ParseFloat)
        h == Coerce(attrs, "height", ParseFloat)
        v == Coerce(attrs, "visible", ParseBool)
        r == Coerce(attrs, "rotation", ParseFloat)
        x == Coerce(attrs, "x", ParseFloat)
        y == Coerce(attrs, "y", ParseFloat)
    IN  IF ~ (IsSome(x) /\ IsSome(y))
        THEN Malformed("objects must have an x and a y number")
        ELSE Ok([v |-> UnwrapOr(v, TRUE), w |-> UnwrapOr(w, F32Zero),
                 h |-> UnwrapOr(h, F32Zero), r |-> UnwrapOr(r, F32Zero),
                 id |-> UnwrapOr(id, <<0, 0>>), gid |-> UnwrapOr(g, <<0, 0>>),
                 n |-> UnwrapOr(n, ""), t |-> UnwrapOr(t, ""),
                 x |-> Unwrap(x), y |-> Unwrap(y)])

\* str::split(sep): the pieces between the separators
RECURSIVE SplitOn(_, _)
SplitOn(s, sep) ==
    IF \A k \in 1 .. Len(s) : s[k] # sep THEN <<s>>
    ELSE LET k == CHOOSE i \in 1 .. Len(s) : s[i] = sep /\ \A j \in 1 .. i - 1 : s[j] # sep
         IN  <<Take(s, k - 1)>> \o SplitOn(Drop(s, k), sep)

\* Object::parse_points, object.rs:180-199
RECURSIVE ParsePairs(_)
ParsePairs(pairs) ==
    IF pairs = <<>> THEN Ok(<<>>)
    ELSE LET v == SplitOn(Head(pairs), ",")
         IN  IF Len(v) # 2
             THEN Malformed("one of a polyline's points does not have an x and y coordinate")
             ELSE IF ParseFloat(v[1]) = None \/ ParseFloat(v[2]) = None
             THEN Malformed("one of polyline's points does not have i32eger coordinates")
             ELSE LET rest == ParsePairs(Tail(pairs))
                  IN  IF IsErr(rest) THEN rest
                      ELSE Ok(<< <<Unwrap(ParseFloat(v[1])), Unwrap(ParseFloat(v[2]))>> >>
                              \o rest.val)

ParsePoints(s) == ParsePairs(SplitOn(s, " "))

\* Object::new_polyline and Object::new_polygon, object.rs:154-178
NewPointsShape(attrs, shape, msg) ==
    LET s == Coerce(attrs, "points", Some)
    IN  IF ~ IsSome(s) THEN Malformed(msg)
        ELSE LET points == ParsePoints(Unwrap(s))
             IN  IF IsErr(points) THEN points
                 ELSE Ok([shape |-> shape, points |-> points.val])

----------------------------------------------------------------------------
(* The tile data decoder: parse_data and its helpers, map.rs:228-358.  Bytes are
   0 .. 255.  The base64 and libflate decoders are library code: base64 is
   modelled in full, the zlib and gzip containers on streams of stored deflate
   blocks with their real headers and checksums. *)

B64Alphabet ==
    << "A", "B", "C", "D", "E", "F", "G", "H", "I", "J", "K", "L", "M", "N", "O", "P",
       "Q", "R", "S", "T", "U", "V", "W", "X", "Y", "Z", "a", "b", "c", "d", "e", "f",
       "g", "h", "i", "j", "k", "l", "m", "n", "o", "p", "q", "r", "s", "t", "u", "v",
       "w", "x", "y", "z", "0", "1", "2", "3", "4", "5", "6", "7", "8", "9", "+", "/" >>

B64Index(c) == CHOOSE i \in 1 .. 64 : B64Alphabet[i] = c
IsB64Char(c) == \E i \in 1 .. 64 : B64Alphabet[i] = c

Whitespace == {" ", "LF", "CR", "TAB"}

\* str::trim
RECURSIVE TrimStart(_)
TrimStart(s) == IF s # <<>> /\ Head(s) \in Whitespace THEN TrimStart(Tail(s)) ELSE s
RECURSIVE TrimEnd(_)
TrimEnd(s) ==
    IF s # <<>> /\ s[Len(s)] \in Whitespace THEN TrimEnd(Take(s, Len(s) - 1)) ELSE s
Trim(s) == TrimEnd(TrimStart(s))

\* the bytes written by a run of 2, 3 or 4 base64 digits
B64Group(g) ==
    LET v == [k \in 1 .. 4 |-> IF k <= Len(g) THEN B64Index(g[k]) - 1 ELSE 0]
        b1 == v[1] * 4 + v[2] \div 16
        b2 == (v[2] % 16) * 16 + v[3] \div 4
        b3 == (v[3] % 4) * 64 + v[4]
    IN  SubSeq(<<b1, b2, b3>>, 1, Len(g) - 1)

RECURSIVE B64Groups(_)
B64Groups(s) ==
    IF s = <<>> THEN <<>>
    ELSE IF Len(s) <= 4 THEN B64Group(s)
    ELSE B64Group(Take(s, 4)) \o B64Groups(Drop(s, 4))

\* base64::decode: padded groups of four digits of the standard alphabet
Base64Decode(s) ==
    LET pad == IF Len(s) >= 2 /\ s[Len(s)] = "=" /\ s[Len(s) - 1] = "=" THEN 2
               ELSE IF Len(s) >= 1 /\ s[Len(s)] = "=" THEN 1 ELSE 0
        body == Take(s, Len(s) - pad)
    IN  IF (Len(s) % 4) # 0 \/ (\E k \in 1 .. Len(body) : ~ IsB64Char(body[k]))
           \/ (Len(body) % 4) = 1
        THEN Err("Base64DecodingError", <<"invalid base64">>)
        ELSE Ok(B64Groups(body))

\* bit p (a power of two) of a xor b
XorBit(a, b, p) == p * (((a \div p) + (b \div p)) % 2)

\* a ^ b on 16 bits
BitXor16(a, b) ==
    XorBit(a, b, 1) + XorBit(a, b, 2) + XorBit(a, b, 4) + XorBit(a, b, 8)
    + XorBit(a, b, 16) + XorBit(a, b, 32) + XorBit(a, b, 64) + XorBit(a, b, 128)
    + XorBit(a, b, 256) + XorBit(a, b, 512) + XorBit(a, b, 1024) + XorBit(a, b, 2048)
    + XorBit(a, b, 4096) + XorBit(a, b, 8192) + XorBit(a, b, 16384) + XorBit(a, b, 32768)

U32Xor(a, b) == <<BitXor16(a[1], b[1]), BitXor16(a[2], b[2])>>
U32Shr8(a) == <<a[1] \div 256, a[2] \div 256 + (a[1] % 256) * 256>>

\* the Adler-32 checksum of a zlib stream
\* (the guard compares the running sums so that each step is evaluated before
\* the next one, as the loop of the checksum does)
RECURSIVE Adler32From(_, _, _)
Adler32From(bytes, a, b) ==
    IF bytes = <<>> \/ a >= 65521 \/ b >= 65521 THEN <<b, a>>
    ELSE Adler32From(Tail(bytes), (a + Head(bytes)) % 65521,
                     (b + a + Head(bytes)) % 65521)
Adler32(bytes) == Adler32From(bytes, 1, 0)

\* the CRC-32 checksum of a gzip stream, by the byte table of the polynomial
\* 0xEDB88320
Crc32Table ==
    << <<0, 0>>, <<30471, 12438>>, <<60942, 24876>>, <<39177, 20922>>,
       <<1901, 50201>>, <<28778, 62607>>, <<59747, 42293>>, <<40548, 38307>>,
       <<3803, 34866>>, <<31196, 47268>>, <<57557, 59678>>, <<38866, 55688>>,
       <<2486, 19499>>, <<32433, 31933>>, <<59320, 11527>>, <<37055, 7569>>,
       <<7607, 4196>>, <<27312, 8434>>, <<62393, 29000>>, <<33982, 16862>>,
       <<6874, 54397>>, <<28125, 58603>>, <<62676, 46417>>, <<33747, 34247>>,
       <<4972, 38998>>, <<25707, 43200>>, <<64866, 63866>>, <<35429, 51692>>,
       <<5121, 23631>>, <<25350, 27865>>, <<64015, 15715>>, <<36104, 3573>>,
       <<15214, 8392>>, <<19561, 4190>>, <<54624, 16868>>, <<41575, 29042>>,
       <<15363, 58577>>, <<19204, 54343>>, <<53773, 34301>>, <<42250, 46443>>,
       <<13749, 43258>>, <<17074, 39020>>, <<56251, 51670>>, <<44220, 63808>>,
       <<13016, 27875>>, <<17887, 23669>>, <<56534, 3535>>, <<43985, 15705>>,
       <<9945, 12460>>, <<20958, 58>>, <<51415, 20864>>, <<49104, 24854>>,
       <<8628, 62645>>, <<22195, 50211>>, <<53178, 38297>>, <<47293, 42255>>,
       <<10242, 47262>>, <<24325, 34824>>, <<50700, 55730>>, <<45323, 59684>>,
       <<12143, 31879>>, <<22632, 19473>>, <<49505, 7595>>, <<46694, 11581>>,
       <<30428, 16784>>, <<475, 28934>>, <<39122, 8380>>, <<61397, 4138>>,
       <<29105, 34185>>, <<1718, 46367>>, <<40895, 58533>>, <<59576, 54323>>,
       <<30727, 51618>>, <<3840, 63796>>, <<38409, 43150>>, <<57614, 38936>>,
       <<32618, 3515>>, <<2157, 15661>>, <<37220, 27799>>, <<58979, 23553>>,
       <<27499, 20980>>, <<7276, 24930>>, <<34149, 12504>>, <<62050, 78>>,
       <<27654, 38381>>, <<6913, 42363>>, <<33288, 62657>>, <<62735, 50263>>,
       <<26032, 55750>>, <<4791, 59728>>, <<35774, 47338>>, <<64697, 34940>>,
       <<25309, 7647>>, <<5594, 11593>>, <<36051, 31987>>, <<64468, 19557>>,
       <<19890, 24920>>, <<15029, 20942>>, <<41916, 116>>, <<54459, 12514>>,
       <<19167, 42305>>, <<15832, 38359>>, <<42193, 50285>>, <<54230, 62715>>,
       <<17257, 59754>>, <<13422, 55804>>, <<44391, 34886>>, <<55904, 47312>>,
       <<17412, 11635>>, <<13059, 7653>>, <<43530, 19551>>, <<56589, 31945>>,
       <<20485, 28988>>, <<9986, 16810>>, <<48651, 4112>>, <<51468, 8326>>,
       <<22376, 46373>>, <<8303, 34227>>, <<47462, 54281>>, <<52833, 58527>>,
       <<24286, 63758>>, <<10713, 51608>>, <<45264, 38946>>, <<51159, 43188>>,
       <<22963, 15639>>, <<11956, 3457>>, <<47037, 23611>>, <<49338, 27821>>,
       <<60856, 33568>>, <<39615, 46006>>, <<950, 57868>>, <<29873, 53914>>,
       <<60117, 18233>>, <<40402, 30639>>, <<1243, 9749>>, <<29660, 5763>>,
       <<58211, 2834>>, <<37988, 15236>>, <<3437, 27198>>, <<31338, 23208>>,
       <<58382, 53003>>, <<37641, 65437>>, <<2560, 44583>>, <<32007, 40625>>,
       <<61455, 37700>>, <<34568, 41938>>, <<7681, 62056>>, <<26886, 49918>>,
       <<63330, 22365>>, <<32869, 26571>>, <<6508, 13937>>, <<28267, 1767>>,
       <<65236, 7030>>, <<35283, 11232>>, <<4314, 31322>>, <<26589, 19148>>,
       <<63929, 57199>>, <<36542, 61433>>, <<6071, 48707>>, <<24752, 36565>>,
       <<54998, 41960>>, <<41425, 37758>>, <<14552, 49860>>, <<20447, 62034>>,
       <<53691, 26609>>, <<42684, 22375>>, <<16309, 1757>>, <<18610, 13899>>,
       <<55309, 11226>>, <<44810, 6988>>, <<13827, 19190>>, <<16644, 31328>>,
       <<57184, 61379>>, <<43111, 57173>>, <<12654, 36591>>, <<18025, 48761>>,
       <<52065, 45964>>, <<48230, 33562>>, <<9583, 53920>>, <<21096, 57910>>,
       <<52236, 30613>>, <<47883, 18179>>, <<8706, 5817>>, <<21765, 9775>>,
       <<50618, 15294>>, <<45757, 2856>>, <<11188, 23186>>, <<23731, 27140>>,
       <<49879, 65447>>, <<46544, 53041>>, <<11481, 40587>>, <<23518, 44573>>,
       <<39780, 49840>>, <<60515, 61990>>, <<30058, 41884>>, <<621, 37642>>,
       <<39945, 1705>>, <<60174, 13887>>, <<29191, 26501>>, <<1280, 22291>>,
       <<38335, 19074>>, <<58040, 31252>>, <<31665, 11182>>, <<3254, 6968>>,
       <<37586, 36507>>, <<58837, 48653>>, <<31964, 61367>>, <<3035, 57121>>,
       <<34515, 53972>>, <<61908, 57922>>, <<26845, 46072>>, <<8154, 33646>>,
       <<33214, 5837>>, <<63161, 9819>>, <<28592, 30689>>, <<6327, 18295>>,
       <<34824, 23270>>, <<65295, 27248>>, <<26118, 15306>>, <<4353, 2908>>,
       <<36709, 40703>>, <<63586, 44649>>, <<24939, 65491>>, <<5740, 53061>>,
       <<40970, 57976>>, <<55053, 53998>>, <<19972, 33620>>, <<14595, 46018>>,
       <<42855, 9825>>, <<53344, 5879>>, <<18793, 18253>>, <<15982, 30683>>,
       <<44753, 27210>>, <<55766, 23260>>, <<16607, 2918>>, <<14296, 15344>>,
       <<43452, 44627>>, <<57019, 40645>>, <<18354, 53119>>, <<12469, 65513>>,
       <<48573, 61980>>, <<51898, 49802>>, <<21427, 37680>>, <<9396, 41894>>,
       <<47824, 13829>>, <<52695, 1683>>, <<21726, 22313>>, <<9177, 26559>>,
       <<45926, 31278>>, <<50273, 19128>>, <<23912, 6914>>, <<10863, 11156>>,
       <<46091, 48695>>, <<49932, 36513>>, <<23045, 57115>>, <<11522, 61325>> >>

RECURSIVE Crc32From(_, _)
Crc32From(bytes, crc) ==
    IF bytes = <<>> \/ crc[1] >= Limb THEN U32Xor(crc, <<Limb - 1, Limb - 1>>)
    ELSE Crc32From(Tail(bytes),
                   U32Xor(Crc32Table[BitXor16(crc[2] % 256, Head(bytes)) + 1], U32Shr8(crc)))
Crc32(bytes) == Crc32From(bytes, <<Limb - 1, Limb - 1>>)

\* a u32 as 4 bytes, most or least significant byte first
BeBytes(x) == <<x[1] \div 256, x[1] % 256, x[2] \div 256, x[2] % 256>>
LeBytes(x) == <<x[2] % 256, x[2] \div 256, x[1] % 256, x[1] \div 256>>

\* inflate of a deflate stream of stored blocks: [ok, out, rest]
RECURSIVE InflateStored(_)
InflateStored(bytes) ==
    IF Len(bytes) < 5 \/ bytes[1] \notin {0, 1} THEN [ok |-> FALSE]
    ELSE LET len == bytes[2] + 256 * bytes[3]
             nlen == bytes[4] + 256 * bytes[5]
         IN  IF len + nlen # Limb - 1 \/ Len(bytes) < 5 + len THEN [ok |-> FALSE]
             ELSE IF bytes[1] = 1
             THEN [ok |-> TRUE, out |-> SubSeq(bytes, 6, 5 + len), rest |-> Drop(bytes, 5 + len)]
             ELSE LET more == InflateStored(Drop(bytes, 5 + len))
                  IN  IF ~ more.ok THEN more
                      ELSE [more EXCEPT !.out = SubSeq(bytes, 6, 5 + len) \o @]

Decompressing(msg) == Err("DecompressingError", <<msg>>)

\* decode_zlib, map.rs:292-302
DecodeZlib(data) ==
    IF Len(data) < 2 \/ (data[1] % 16) # 8 \/ ((data[1] * 256 + data[2]) % 31) # 0
          \/ ((data[2] \div 32) % 2) = 1
    THEN Decompressing("zlib header")
    ELSE LET body == InflateStored(Drop(data, 2))
         IN  IF ~ body.ok THEN Decompressing("deflate")
             ELSE IF Len(body.rest) < 4 \/ Take(body.rest, 4) # BeBytes(Adler32(body.out))
             THEN Decompressing("adler32")
             ELSE Ok(body.out)

\* decode_gzip, map.rs:304-313
DecodeGzip(data) ==
    IF Len(data) < 10 \/ Take(data, 3) # <<31, 139, 8>> \/ data[4] # 0
    THEN Decompressing("gzip header")
    ELSE LET body == InflateStored(Drop(data, 10))
         IN  IF ~ body.ok THEN Decompressing("deflate")
             ELSE IF Len(body.rest) < 8
                     \/ Take(body.rest, 4) # LeBytes(Crc32(body.out))
                     \/ SubSeq(body.rest, 5, 8) # LeBytes(<<0, Len(body.out)>>)
             THEN Decompressing("gzip trailer")
             ELSE Ok(body.out)

\* an entry of a chunk read with its bytes taken most significant first
ChunkEntryBe(chunk, i) ==
    LET start == i * 4
    IN  IF start + 4 > Len(chunk) THEN None
        ELSE Some(<<chunk[start + 1] * 256 + chunk[start + 2],
                    chunk[start + 3] * 256 + chunk[start + 4]>>)

\* an entry of a chunk read into a signed 32-bit value: the top bit is lost
ChunkEntryWrapped(chunk, i) ==
    LET start == i * 4
    IN  IF start + 4 > Len(chunk) THEN None
        ELSE Some(<<(chunk[start + 4] % 128) * 256 + chunk[start + 3],
                    chunk[start + 2] * 256 + chunk[start + 1]>>)

\* the entry of row r at column i: bytes start .. start + 3 of the chunk, least
\* significant first, map.rs:348-352; None when an index is out of the chunk
ChunkEntry(chunk, i) ==
    LET start == i * 4
    IN  IF start + 4 > Len(chunk) THEN None
        ELSE Some(<<chunk[start + 4] * 256 + chunk[start + 3],
                    chunk[start + 2] * 256 + chunk[start + 1]>>)

RECURSIVE ChunkRow(_, _, _)
\* the loop `for i in 0..width`, from column i on; None when an index panics
ChunkRow(chunk, i, width) ==
    IF i >= width THEN Some(<<>>)
    ELSE LET n == ChunkEntry(chunk, i)
             rest == ChunkRow(chunk, i + 1, width)
         IN  IF n = None \/ rest = None THEN None
             ELSE Some(<<Unwrap(n)>> \o Unwrap(rest))

RECURSIVE ChunkRows(_, _, _)
\* the loop over all.chunks(size)
ChunkRows(all, size, width) ==
    IF all = <<>> THEN Some(<<>>)
    ELSE LET chunk == Take(all, IF Len(all) < size THEN Len(all) ELSE size)
             row == ChunkRow(chunk, 0, width)
             rest == ChunkRows(Drop(all, Len(chunk)), size, width)
         IN  IF row = None \/ rest = None THEN None
             ELSE Some(<<Unwrap(row)>> \o Unwrap(rest))

\* convert_to_u32, map.rs:343-358; widths of 2^16 and more are not modelled
ConvertToU32(all, width) ==
    IF width[1] # 0 THEN Panic("width not modelled")
    ELSE IF width[2] = 0 THEN Panic("chunk size must be non-zero")
    ELSE LET rows == ChunkRows(all, width[2] * 4, width[2])
         IN  IF rows = None THEN Panic("index out of bounds") ELSE Ok(Unwrap(rows))

\* a token left as it is
RemoveNone(s, c) == s

RECURSIVE RemoveAll(_, _)
\* str::replace(c, "")
RemoveAll(s, c) ==
    IF s = <<>> THEN <<>>
    ELSE IF Head(s) = c THEN RemoveAll(Tail(s), c)
    ELSE <<Head(s)>> \o RemoveAll(Tail(s), c)

RECURSIVE CsvRow(_)
\* the tokens of one line, parsed: None when a parse().unwrap() panics
CsvRow(toks) ==
    IF toks = <<>> THEN Some(<<>>)
    ELSE IF Trim(Head(toks)) = <<>> THEN CsvRow(Tail(toks))
    ELSE LET n == ParseU32(RemoveAll(Head(toks), "CR"))
             rest == CsvRow(Tail(toks))
         IN  IF n = None \/ rest = None THEN None
             ELSE Some(<<Unwrap(n)>> \o Unwrap(rest))

RECURSIVE CsvRows(_)
CsvRows(lines) ==
    IF lines = <<>> THEN Some(<<>>)
    ELSE IF Trim(Head(lines)) = <<>> THEN CsvRows(Tail(lines))
    ELSE LET row == CsvRow(SplitOn(Head(lines), ","))
             rest == CsvRows(Tail(lines))
         IN  IF row = None \/ rest = None THEN None
             ELSE Some(<<Unwrap(row)>> \o Unwrap(rest))

\* the Characters arm of decode_csv, map.rs:318-332
DecodeCsvText(s) ==
    LET rows == CsvRows(SplitOn(s, "LF"))
    IN  IF rows = None THEN Panic("unwrap on an Err value")
        ELSE Ok(Unwrap(rows))

\* r.and_then(f) and r.map(f) on Result
AndThen(r, F(_)) == IF IsOk(r) THEN F(r.val) ELSE r

\* what parse_data makes of the bytes parse_base64 returned, map.rs:250-263
FromBase64(bytes, compression, width) ==
    LET raw == IF compression = "zlib" THEN AndThen(bytes, DecodeZlib)
               ELSE IF compression = "gzip" THEN AndThen(bytes, DecodeGzip)
               ELSE bytes
    IN  IF IsOk(raw) THEN ConvertToU32(raw.val, width) ELSE raw

\* a match of parse_data that reads csv whatever the compression says
DataDecoderLenient(attrs) ==
    LET e == Coerce(attrs, "encoding", Some)
        c == Coerce(attrs, "compression", Some)
    IN  IF e = None THEN Err("Other", <<"Missing encoding format">>)
        ELSE IF Unwrap(e) = "csv" THEN Ok([loop |-> "csv", compression |-> "none"])
        ELSE IF Unwrap(e) = "base64" /\ c = None
        THEN Ok([loop |-> "base64", compression |-> "none"])
        ELSE IF Unwrap(e) = "base64" /\ Unwrap(c) \in {"zlib", "gzip"}
        THEN Ok([loop |-> "base64", compression |-> Unwrap(c)])
        ELSE Err("Other", <<"Unknown combination of encoding and compression",
                            Unwrap(e), UnwrapOr(c, "")>>)

\* the match of parse_data, map.rs:243-273: the loop to enter, or the error
DataDecoder(attrs) ==
    LET e == Coerce(attrs, "encoding", Some)
        c == Coerce(attrs, "compression", Some)
    IN  IF e = None /\ c = None THEN Err("Other", <<"XML format is currently not supported">>)
        ELSE IF IsSome(e) /\ c = None
        THEN IF Unwrap(e) = "base64" THEN Ok([loop |-> "base64", compression |-> "none"])
             ELSE IF Unwrap(e) = "csv" THEN Ok([loop |-> "csv", compression |-> "none"])
             ELSE Err("Other", <<"Unknown encoding format", Unwrap(e)>>)
        ELSE IF IsSome(e) /\ IsSome(c)
        THEN IF Unwrap(e) = "base64" /\ Unwrap(c) \in {"zlib", "gzip"}
             THEN Ok([loop |-> "base64", compression |-> Unwrap(c)])
             ELSE Err("Other", <<"Unknown combination of encoding and compression",
                                 Unwrap(e), Unwrap(c)>>)
        ELSE Err("Other", <<"Missing encoding format">>)

----------------------------------------------------------------------------
(* The writers of tile data (what the map editor does): used to build the
   documents the parser is run on *)

RECURSIVE Base64Encode(_)
Base64Encode(bytes) ==
    IF bytes = <<>> THEN <<>>
    ELSE LET n == IF Len(bytes) < 3 THEN Len(bytes) ELSE 3
             b == [k \in 1 .. 3 |-> IF k <= n THEN bytes[k] ELSE 0]
             d == << b[1] \div 4, (b[1] % 4) * 16 + b[2] \div 16,
                     (b[2] % 16) * 4 + b[3] \div 64, b[3] % 64 >>
             g == [k \in 1 .. 4 |-> IF k <= n + 1 THEN B64Alphabet[d[k] + 1] ELSE "="]
         IN  g \o Base64Encode(Drop(bytes, n))

\* one final stored deflate block
StoredBlock(bytes) ==
    <<1, Len(bytes) % 256, Len(bytes) \div 256,
      255 - (Len(bytes) % 256), 255 - (Len(bytes) \div 256)>> \o bytes

ZlibStored(bytes) == <<120, 1>> \o StoredBlock(bytes) \o BeBytes(Adler32(bytes))

GzipStored(bytes) ==
    <<31, 139, 8, 0, 0, 0, 0, 0, 0, 255>> \o StoredBlock(bytes)
        \o LeBytes(Crc32(bytes)) \o LeBytes(<<0, Len(bytes)>>)

RECURSIVE Flatten(_)
Flatten(ss) == IF ss = <<>> THEN <<>> ELSE Head(ss) \o Flatten(Tail(ss))

\* the bytes of a grid: row by row, each GID least significant byte first
GridBytes(grid) == Flatten([r \in 1 .. Len(grid) |-> Flatten([c \in 1 .. Len(grid[r]) |-> LeBytes(grid[r][c])])])

DecimalDigit(d) == CHOOSE c \in Digits : DigitVal(c) = d

RECURSIVE U32Decimal(_)
\* a u32 in decimal
U32Decimal(x) ==
    LET qh == x[1] \div 10
        rest == (x[1] % 10) * Limb + x[2]
        q == <<qh, rest \div 10>>
    IN  IF q = <<0, 0>> THEN <<DecimalDigit(rest % 10)>>
        ELSE U32Decimal(q) \o <<DecimalDigit(rest % 10)>>

RECURSIVE CsvLine(_)
CsvLine(row) ==
    IF row = <<>> THEN <<>>
    ELSE U32Decimal(Head(row)) \o <<",">> \o CsvLine(Tail(row))

RECURSIVE CsvLines(_)
\* the csv text of a grid: a line break, then one line per row, each value
\* followed by a comma except the last of the grid
CsvLines(grid) ==
    IF grid = <<>> THEN <<>>
    ELSE IF Len(grid) = 1 THEN Take(CsvLine(grid[1]), Len(CsvLine(grid[1])) - 1) \o <<"LF">>
    ELSE CsvLine(grid[1]) \o <<"LF">> \o CsvLines(Tail(grid))

CsvText(grid) == <<"LF">> \o CsvLines(grid)

----------------------------------------------------------------------------
(* The events of xml::EventReader.  A document is the sequence of the events
   before its EndDocument; a reader is the document and the number of events
   pulled.  EndDocument, and an Error event, are reported again by every later
   call of next(). *)

StartElement(name, attributes) ==
    [t |-> "StartElement", name |-> name, attributes |-> attributes]
EndElement(name) == [t |-> "EndElement", name |-> name]
Characters(s) == [t |-> "Characters", s |-> s]
WhitespaceEvent == [t |-> "Whitespace"]
XmlError == [t |-> "Error"]
EndDocument == [t |-> "EndDocument"]

EventReaderNew(doc) == [doc |-> doc, pos |-> 0]
NoReader == EventReaderNew(<<>>)

\* EventReader::next: the event returned, and the reader after the call
NextEvent(r) == IF r.pos < Len(r.doc) THEN r.doc[r.pos + 1] ELSE EndDocument
AfterNext(r) ==
    IF r.pos < Len(r.doc) /\ r.doc[r.pos + 1].t # "Error"
    THEN [r EXCEPT !.pos = @ + 1] ELSE r

\* a path is a directory and a file name; Path::with_file_name
PathOf(dir, file) == [dir |-> dir, file |-> file]
WithFileName(path, file_name) == [path EXCEPT !.file = file_name]

----------------------------------------------------------------------------
(* The call stack of a parse.  A frame is one active call of a constructor:
   fn names it, stream is the reader it pulls from, attrs the attributes it was
   given, loc its local variables, ret what its caller does with the value it
   returns (the rest of the handler closure that called it). *)

Frame(fn, stream, attrs, loc, ret) ==
    [fn |-> fn, stream |-> stream, attrs |-> attrs, loc |-> loc, ret |-> ret]

\* the handler closures' use of a returned value v: vec.push(v), var = v,
\* var = Some(v), and the push followed by layer_index += 1 of Map::new
Push(field) == [field |-> field, how |-> "push"]
Set(field) == [field |-> field, how |-> "set"]
SetSome(field) == [field |-> field, how |-> "some"]
PushLayer(field) == [field |-> field, how |-> "push_layer"]
ReturnToCaller == [field |-> "", how |-> "return"]

Resume(loc, ret, v) ==
    CASE ret.how = "push" -> [loc EXCEPT ![ret.field] = Append(@, v)]
      [] ret.how = "set" -> [loc EXCEPT ![ret.field] = v]
      [] ret.how = "some" -> [loc EXCEPT ![ret.field] = Some(v)]
      [] ret.how = "push_layer" ->
            [loc EXCEPT ![ret.field] = Append(@, v), !.layer_index = @ + 1]

\* HashMap::new and HashMap::insert
HashMapNew == <<>>
Insert(p, k, v) == [x \in DOMAIN p \cup {k} |-> IF x = k THEN v ELSE p[x]]

Top(m) == m.stack[Len(m.stack)]
Reader(m) == IF Top(m).stream = "parser" THEN m.parser ELSE m.tileset_parser
Pull(m) ==
    IF Top(m).stream = "parser" THEN [m EXCEPT !.parser = AfterNext(@)]
    ELSE [m EXCEPT !.tileset_parser = AfterNext(@)]
Call(m, frame) == [m EXCEPT !.stack = Append(@, frame)]
SetLoc(m, loc) == [m EXCEPT !.stack[Len(m.stack)].loc = loc]

\* the entry point returns r
Finish(m, r) == [m EXCEPT !.stack = <<>>, !.outcome = Some(r)]

\* the top frame returns Ok(v)
Return(m, v) ==
    IF Len(m.stack) = 1 THEN Finish(m, Ok(v))
    ELSE LET k == Len(m.stack) - 1
         IN  [m EXCEPT !.stack =
                 SubSeq(m.stack, 1, k - 1)
                 \o << [m.stack[k] EXCEPT !.loc = Resume(@, Top(m).ret, v)] >>]

\* the map path guessed to be in the working directory when it is not known
ReferencePathGuessed(map_path, source) ==
    IF map_path = None THEN Some(PathOf(".", source))
    ELSE Some(WithFileName(Unwrap(map_path), source))

\* tileset.rs:88: map_path.ok_or(..)?.with_file_name(source)
ReferencePath(map_path, source) ==
    IF map_path = None THEN None
    ELSE Some(WithFileName(Unwrap(map_path), source))

\* Tileset::new_reference, tileset.rs:74-96, up to the first pull of new_external
NewReference(m, attrs, map_path, ret) ==
    LET a == TilesetReferenceAttrs(attrs)
    IN  IF IsErr(a) THEN Finish(m, a)
        ELSE LET tileset_path == ReferencePath(map_path, a.val.source)
             IN  IF tileset_path = None
                 THEN Finish(m, Err("Other", <<"Maps with external tilesets must know their file location.  See parse_with_path(Path).">>))
                 ELSE LET path == Unwrap(tileset_path)
                          m1 == [m EXCEPT !.opened = Append(@, path)]
                      IN  IF path \notin DOMAIN m.fs
                          THEN Finish(m1, Err("Other", <<"External tileset file not found", path>>))
                          ELSE Call([m1 EXCEPT !.tileset_parser = EventReaderNew(m.fs[path])],
                                    Frame("Tileset::new_external", "tileset_parser", <<>>,
                                          [first_gid |-> a.val.first_gid], ret))

\* an Err(e) returned with `?` up the stack: every caller returns it unchanged
\* except Tileset::new, tileset.rs:27, whose or_else answers any error of
\* new_internal with new_reference
Raise(m, e) ==
    LET internal == { i \in 1 .. Len(m.stack) : m.stack[i].fn = "Tileset::new_internal" }
    IN  IF internal = {} THEN Finish(m, e)
        ELSE LET i == CHOOSE j \in internal : TRUE
                 f == m.stack[i]
             IN  NewReference([m EXCEPT !.stack = SubSeq(m.stack, 1, i - 1)],
                              f.attrs, f.loc.map_path, f.ret)

\* a Result handed to the caller of the top frame; a panic ends the call
Deliver(m, r) ==
    CASE r.tag = "Ok" -> Return(m, r.val)
      [] r.tag = "Err" -> Raise(m, r)
      [] r.tag = "Panic" -> Finish(m, r)

\* a constructor called from a handler: its get_attrs! block gave a
Construct(m, fn, attrs, a, loc, ret) ==
    IF IsErr(a) THEN Raise(m, a)
    ELSE Call(m, Frame(fn, Top(m).stream, attrs, loc, ret))

\* the end of the document reported as an error of no particular kind
PrematureEndAsOther(msg) == Err("Other", <<msg>>)

PrematureEnd(msg) == Err("PrematureEnd", <<msg>>)
XmlDecodingError == Err("XmlDecodingError", <<"xml">>)

\* one iteration of the loop of parse_tag!, macros.rs:36-55, in the top frame
ParseTag(m, close_tag, Handle(_, _, _), Build(_)) ==
    LET ev == NextEvent(Reader(m))
    IN  CASE ev.t = "Error" -> Raise(Pull(m), XmlDecodingError)
          [] ev.t = "StartElement" -> Handle(Pull(m), ev.name, ev.attributes)
          [] ev.t = "EndElement" ->
                IF ev.name = close_tag THEN Return(Pull(m), Build(Top(m).loc)) ELSE Pull(m)
          [] ev.t = "EndDocument" ->
                Raise(Pull(m), PrematureEnd("Document ended before we expected."))
          [] OTHER -> Pull(m)

----------------------------------------------------------------------------
(* The constructors: what each does when called (its get_attrs! block and the
   initial values of its locals), the handlers of its parse_tag! loop, and the
   value it returns at its close tag *)

\* Image::new, image.rs:14-39: the one handler is for the name ""
ImageNew(m, attrs, ret) == Construct(m, "Image::new", attrs, ImageAttrs(attrs), ImageAttrs(attrs).val, ret)
ImageHandle(m, name, attrs) == m
ImageBuild(loc) == loc

\* parse_properties, property.rs:48-70
ParseProperties(m, ret) ==
    Call(m, Frame("parse_properties", Top(m).stream, <<>>, [p |-> HashMapNew], ret))
PropertiesInsert(m, r) ==
    CASE r.tag = "Ok" -> SetLoc(m, [p |-> Insert(Top(m).loc.p, r.val[1], r.val[2])])
      [] r.tag = "Err" -> Raise(m, r)
      [] r.tag = "Panic" -> Finish(m, r)
PropertiesHandle(m, name, attrs) ==
    IF name = "property" THEN PropertiesInsert(m, PropertyHandler(attrs)) ELSE m
PropertiesBuild(loc) == loc.p

\* parse_animation, tile.rs:110-119
ParseAnimation(m, ret) ==
    Call(m, Frame("parse_animation", Top(m).stream, <<>>, [animation |-> <<>>], ret))
AnimationPush(m, r) ==
    IF IsErr(r) THEN Raise(m, r)
    ELSE SetLoc(m, [animation |-> Append(Top(m).loc.animation, r.val)])
AnimationHandle(m, name, attrs) ==
    IF name = "frame" THEN AnimationPush(m, FrameNew(attrs)) ELSE m
AnimationBuild(loc) == loc.animation

\* Object::new, object.rs:80-152
ObjectNew(m, attrs, ret) ==
    Construct(m, "Object::new", attrs, ObjectAttrs(attrs),
              [a |-> ObjectAttrs(attrs).val, shape |-> None, properties |-> HashMapNew], ret)
ObjectShape(m, r) ==
    IF IsErr(r) THEN Raise(m, r)
    ELSE SetLoc(m, [Top(m).loc EXCEPT !.shape = Some(r.val)])
ObjectHandle(m, name, attrs) ==
    CASE name = "ellipse" ->
            ObjectShape(m, Ok([shape |-> "Ellipse", width |-> Top(m).loc.a.w,
                               height |-> Top(m).loc.a.h]))
      [] name = "polyline" ->
            ObjectShape(m, NewPointsShape(attrs, "Polyline", "A polyline must have points"))
      [] name = "polygon" ->
            ObjectShape(m, NewPointsShape(attrs, "Polygon", "A polygon must have points"))
      [] name = "properties" -> ParseProperties(m, Set("properties"))
      [] OTHER -> m
ObjectBuild(loc) ==
    [id |-> loc.a.id, gid |-> loc.a.gid, name |-> loc.a.n, obj_type |-> loc.a.t,
     x |-> loc.a.x, y |-> loc.a.y, rotation |-> loc.a.r, visible |-> loc.a.v,
     shape |-> UnwrapOr(loc.shape, [shape |-> "Rect", width |-> loc.a.w, height |-> loc.a.h]),
     properties |-> loc.properties]

\* ObjectGroup::new, object.rs:23-54
ObjectGroupNew(m, attrs, layer_index, ret) ==
    Construct(m, "ObjectGroup::new", attrs, ObjectGroupAttrs(attrs),
              [a |-> ObjectGroupAttrs(attrs).val, layer_index |-> layer_index,
               objects |-> <<>>], ret)
ObjectGroupHandle(m, name, attrs) ==
    IF name = "object" THEN ObjectNew(m, attrs, Push("objects")) ELSE m
ObjectGroupBuild(loc) ==
    [name |-> UnwrapOr(loc.a.n, ""), opacity |-> UnwrapOr(loc.a.o, F32One),
     visible |-> UnwrapOr(loc.a.v, TRUE), objects |-> loc.objects, color |-> loc.a.c,
     layer_index |-> loc.layer_index]

\* Tile::new, tile.rs:28-83
TilesetTileNew(m, attrs, ret) ==
    Construct(m, "Tile::new", attrs, TileAttrs(attrs),
              [a |-> TileAttrs(attrs).val, images |-> <<>>, properties |-> HashMapNew,
               objectgroup |-> None, animation |-> None], ret)
TileHandle(m, name, attrs) ==
    CASE name = "image" -> ImageNew(m, attrs, Push("images"))
      [] name = "properties" -> ParseProperties(m, Set("properties"))
      [] name = "objectgroup" -> ObjectGroupNew(m, attrs, None, SetSome("objectgroup"))
      [] name = "animation" -> ParseAnimation(m, SetSome("animation"))
      [] OTHER -> m
TileBuild(loc) ==
    [id |-> loc.a.id, flip_h |-> loc.a.flip_h, flip_v |-> loc.a.flip_v,
     images |-> loc.images, properties |-> loc.properties,
     objectgroup |-> loc.objectgroup, animation |-> loc.animation,
     tile_type |-> loc.a.tile_type, probability |-> UnwrapOr(loc.a.probability, F32One)]

\* the handlers and the value of Tileset::new_internal, tileset.rs:49-71, and of
\* Tileset::parse_external_tileset, tileset.rs:142-164
TilesetHandle(m, name, attrs) ==
    CASE name = "image" -> ImageNew(m, attrs, Push("images"))
      [] name = "tile" -> TilesetTileNew(m, attrs, Push("tiles"))
      [] OTHER -> m
TilesetBuild(loc) ==
    [first_gid |-> loc.a.first_gid, name |-> loc.a.name, tile_width |-> loc.a.width,
     tile_height |-> loc.a.height, spacing |-> UnwrapOr(loc.a.spacing, <<0, 0>>),
     margin |-> UnwrapOr(loc.a.margin, <<0, 0>>), images |-> loc.images, tiles |-> loc.tiles]

\* Tileset::new, tileset.rs:22-28: new_internal, or new_reference at once when
\* the get_attrs! block of new_internal fails
TilesetNew(m, attrs, map_path, ret) ==
    LET a == TilesetInternalAttrs(attrs)
    IN  IF IsErr(a) THEN NewReference(m, attrs, map_path, ret)
        ELSE Call(m, Frame("Tileset::new_internal", Top(m).stream, attrs,
                           [a |-> a.val, map_path |-> map_path, images |-> <<>>,
                            tiles |-> <<>>], ret))

\* Tileset::parse_external_tileset, tileset.rs:123-165, called by `return` from
\* new_external: its frame takes the place of the caller's
ParseExternalTileset(m, first_gid, attrs) ==
    LET a == TilesetExternalAttrs(first_gid, attrs)
        outer == [m EXCEPT !.stack = SubSeq(m.stack, 1, Len(m.stack) - 1)]
    IN  IF IsErr(a) THEN Finish(m, a)
        ELSE Call(outer, Frame("Tileset::parse_external_tileset", Top(m).stream, attrs,
                               [a |-> a.val, images |-> <<>>, tiles |-> <<>>], Top(m).ret))

\* parse_data, map.rs:228-274, up to the first pull of its text reader
ParseData(m, attrs, width, ret) ==
    LET d == DataDecoder(attrs)
    IN  IF IsErr(d) THEN Raise(m, d)
        ELSE Call(m, Frame(IF d.val.loop = "base64" THEN "parse_base64" ELSE "decode_csv",
                           Top(m).stream, attrs,
                           [compression |-> d.val.compression, width |-> width], ret))

\* Layer::new, layer.rs:21-59
LayerNew(m, attrs, width, layer_index, ret) ==
    Construct(m, "Layer::new", attrs, LayerAttrs(attrs),
              [a |-> LayerAttrs(attrs).val, width |-> width, layer_index |-> layer_index,
               tiles |-> <<>>, properties |-> HashMapNew], ret)
LayerHandle(m, name, attrs) ==
    CASE name = "data" -> ParseData(m, attrs, Top(m).loc.width, Set("tiles"))
      [] name = "properties" -> ParseProperties(m, Set("properties"))
      [] OTHER -> m
LayerBuild(loc) ==
    [name |-> loc.a.n, opacity |-> UnwrapOr(loc.a.o, F32One),
     visible |-> UnwrapOr(loc.a.v, TRUE), tiles |-> loc.tiles,
     properties |-> loc.properties, layer_index |-> loc.layer_index]

\* ImageLayer::new, layer.rs:75-114
ImageLayerNew(m, attrs, layer_index, ret) ==
    Construct(m, "ImageLayer::new", attrs, ImageLayerAttrs(attrs),
              [a |-> ImageLayerAttrs(attrs).val, layer_index |-> layer_index,
               image |-> None, properties |-> HashMapNew], ret)
ImageLayerHandle(m, name, attrs) ==
    CASE name = "image" -> ImageNew(m, attrs, SetSome("image"))
      [] name = "properties" -> ParseProperties(m, Set("properties"))
      [] OTHER -> m
ImageLayerBuild(loc) ==
    [name |-> loc.a.n, opacity |-> UnwrapOr(loc.a.o, F32One),
     visible |-> UnwrapOr(loc.a.v, TRUE), offset_x |-> UnwrapOr(loc.a.ox, F32Zero),
     offset_y |-> UnwrapOr(loc.a.oy, F32Zero), image |-> loc.image,
     properties |-> loc.properties, layer_index |-> loc.layer_index]

\* Map::new, map.rs:64-130, called by `return` from parse_impl: its frame takes
\* the place of the caller's
MapNew(m, attrs, map_path) ==
    LET a == MapAttrs(attrs)
        outer == [m EXCEPT !.stack = SubSeq(m.stack, 1, Len(m.stack) - 1)]
    IN  IF IsErr(a) THEN Finish(m, a)
        ELSE Call(outer, Frame("Map::new", Top(m).stream, attrs,
                               [a |-> a.val, map_path |-> map_path, tilesets |-> <<>>,
                                layers |-> <<>>, image_layers |-> <<>>,
                                properties |-> HashMapNew, object_groups |-> <<>>,
                                layer_index |-> 0], Top(m).ret))
MapHandle(m, name, attrs) ==
    CASE name = "tileset" -> TilesetNew(m, attrs, Top(m).loc.map_path, Push("tilesets"))
      [] name = "layer" ->
            LayerNew(m, attrs, Top(m).loc.a.w, Top(m).loc.layer_index, PushLayer("layers"))
      [] name = "imagelayer" ->
            ImageLayerNew(m, attrs, Top(m).loc.layer_index, PushLayer("image_layers"))
      [] name = "properties" -> ParseProperties(m, Set("properties"))
      [] name = "objectgroup" ->
            ObjectGroupNew(m, attrs, Some(Top(m).loc.layer_index), PushLayer("object_groups"))
      [] OTHER -> m
MapBuild(loc) ==
    [version |-> loc.a.v, orientation |-> loc.a.o, width |-> loc.a.w, height |-> loc.a.h,
     tile_width |-> loc.a.tw, tile_height |-> loc.a.th, tilesets |-> loc.tilesets,
     layers |-> loc.layers, image_layers |-> loc.image_layers,
     object_groups |-> loc.object_groups, properties |-> loc.properties,
     background_color |-> loc.a.c]

\* one iteration of the loop of Map::parse_impl, map.rs:170-186
ParseImplStep(m) ==
    LET ev == NextEvent(Reader(m))
    IN  CASE ev.t = "Error" -> Finish(Pull(m), XmlDecodingError)
          [] ev.t = "StartElement" ->
                IF ev.name = "map" THEN MapNew(Pull(m), ev.attributes, Top(m).loc.map_path)
                ELSE Pull(m)
          [] ev.t = "EndDocument" ->
                Finish(Pull(m), PrematureEnd("Document ended before map was parsed"))
          [] OTHER -> Pull(m)

\* one iteration of the loop of Tileset::new_external, tileset.rs:100-120
NewExternalStep(m) ==
    LET ev == NextEvent(Reader(m))
    IN  CASE ev.t = "Error" -> Finish(Pull(m), XmlDecodingError)
          [] ev.t = "StartElement" ->
                IF ev.name = "tileset"
                THEN ParseExternalTileset(Pull(m), Top(m).loc.first_gid, ev.attributes)
                ELSE Pull(m)
          [] ev.t = "EndDocument" ->
                Finish(Pull(m), PrematureEnd("Tileset Document ended before map was parsed"))
          [] OTHER -> Pull(m)

\* one iteration of the loop of parse_base64, map.rs:276-290, and what
\* parse_data makes of its result
ParseBase64Step(m) ==
    LET ev == NextEvent(Reader(m))
        loc == Top(m).loc
    IN  CASE ev.t = "Error" -> Raise(Pull(m), XmlDecodingError)
          [] ev.t = "Characters" ->
                Deliver(Pull(m), FromBase64(Base64Decode(Trim(ev.s)), loc.compression, loc.width))
          [] ev.t = "EndElement" /\ ev.name = "data" ->
                Deliver(Pull(m), FromBase64(Ok(<<>>), loc.compression, loc.width))
          [] OTHER -> Pull(m)

\* one iteration of the loop of decode_csv, map.rs:315-341
DecodeCsvStep(m) ==
    LET ev == NextEvent(Reader(m))
    IN  CASE ev.t = "Error" -> Raise(Pull(m), XmlDecodingError)
          [] ev.t = "Characters" -> Deliver(Pull(m), DecodeCsvText(ev.s))
          [] ev.t = "EndElement" /\ ev.name = "data" -> Return(Pull(m), <<>>)
          [] OTHER -> Pull(m)

----------------------------------------------------------------------------
(* The parser as a state machine: a session is a sequence of calls of the
   public entry points, run one after the other over a file system fs *)

\* the machine state the steps work on
Machine ==
    [stack |-> stack, parser |-> parser, tileset_parser |-> tileset_parser,
     opened |-> opened, fs |-> fs, outcome |-> None]

\* the machine state at the start of a call
Fresh ==
    [stack |-> <<>>, parser |-> NoReader, tileset_parser |-> NoReader,
     opened |-> <<>>, fs |-> fs, outcome |-> None]

\* the next state is m; a call that ended leaves its result, the number of
\* events pulled from its reader and the paths it gave to File::open
Commit(m) ==
    /\ stack' = m.stack
    /\ parser' = m.parser
    /\ tileset_parser' = m.tileset_parser
    /\ opened' = m.opened
    /\ results' = IF m.outcome = None THEN results
                  ELSE Append(results, [result |-> Unwrap(m.outcome),
                                        pulled |-> m.parser.pos, opened |-> m.opened])
    /\ UNCHANGED <<scenario, calls, fs>>
    /\ UNCHANGED <<gidVars, tileVars, propVars>>

ThisCall == calls[Len(results) + 1]
Ready(entry) == stack = <<>> /\ Len(results) < Len(calls) /\ ThisCall.entry = entry
Running(fn) == stack # <<>> /\ stack[Len(stack)].fn = fn

\* Map::parse_impl, map.rs:168-169
ParseImpl(m, reader, map_path) ==
    Call([m EXCEPT !.parser = EventReaderNew(reader)],
         Frame("Map::parse_impl", "parser", <<>>, [map_path |-> map_path], ReturnToCaller))

\* Map::parse, map.rs:147-149
Parse ==
    /\ Ready("Map::parse")
    /\ Commit(ParseImpl(Fresh, ThisCall.reader, None))

\* Map::parse_file, map.rs:154-158
ParseFile ==
    /\ Ready("Map::parse_file")
    /\ Commit(IF ThisCall.path \notin DOMAIN fs
              THEN Finish([Fresh EXCEPT !.opened = <<ThisCall.path>>],
                          Err("Other", <<"Map file not found", ThisCall.path>>))
              ELSE ParseImpl([Fresh EXCEPT !.opened = <<ThisCall.path>>],
                             fs[ThisCall.path], Some(ThisCall.path)))

\* Map::parse_with_path, map.rs:164-166
ParseWithPath ==
    /\ Ready("Map::parse_with_path")
    /\ Commit(ParseImpl(Fresh, ThisCall.reader, Some(ThisCall.path)))

\* Tileset::parse_tileset, tileset.rs:172-174, and new_external, tileset.rs:98-99
ParseTileset ==
    /\ Ready("Tileset::parse_tileset")
    /\ Commit(Call([Fresh EXCEPT !.tileset_parser = EventReaderNew(ThisCall.reader)],
                   Frame("Tileset::new_external", "tileset_parser", <<>>,
                         [first_gid |-> ThisCall.first_gid], ReturnToCaller)))

ParseImplLoop == Running("Map::parse_impl") /\ Commit(ParseImplStep(Machine))
NewExternalLoop == Running("Tileset::new_external") /\ Commit(NewExternalStep(Machine))
\* a loop of Map::new that counts the map elements it is inside of, and passes
\* over the end tag of a nested one
MapLoopNested ==
    /\ Running("Map::new")
    /\ LET r == Reader(Machine)
           ev == NextEvent(r)
           opened_maps == Cardinality({ k \in 1 .. r.pos : r.doc[k].t = "StartElement"
                                                            /\ r.doc[k].name = "map" })
           closed_maps == Cardinality({ k \in 1 .. r.pos : r.doc[k].t = "EndElement"
                                                            /\ r.doc[k].name = "map" })
       IN  IF ev.t = "EndElement" /\ ev.name = "map" /\ opened_maps - closed_maps > 1
           THEN Commit(Pull(Machine))
           ELSE Commit(ParseTag(Machine, "map", MapHandle, MapBuild))
MapLoop == Running("Map::new") /\ Commit(ParseTag(Machine, "map", MapHandle, MapBuild))
TilesetInternalLoop ==
    /\ Running("Tileset::new_internal")
    /\ Commit(ParseTag(Machine, "tileset", TilesetHandle, TilesetBuild))
TilesetExternalLoop ==
    /\ Running("Tileset::parse_external_tileset")
    /\ Commit(ParseTag(Machine, "tileset", TilesetHandle, TilesetBuild))
ImageLoop == Running("Image::new") /\ Commit(ParseTag(Machine, "image", ImageHandle, ImageBuild))
TileLoop == Running("Tile::new") /\ Commit(ParseTag(Machine, "tile", TileHandle, TileBuild))
AnimationLoop ==
    /\ Running("parse_animation")
    /\ Commit(ParseTag(Machine, "animation", AnimationHandle, AnimationBuild))
PropertiesLoop ==
    /\ Running("parse_properties")
    /\ Commit(ParseTag(Machine, "properties", PropertiesHandle, PropertiesBuild))
LayerLoop == Running("Layer::new") /\ Commit(ParseTag(Machine, "layer", LayerHandle, LayerBuild))
ImageLayerLoop ==
    /\ Running("ImageLayer::new")
    /\ Commit(ParseTag(Machine, "imagelayer", ImageLayerHandle, ImageLayerBuild))
ObjectGroupLoop ==
    /\ Running("ObjectGroup::new")
    /\ Commit(ParseTag(Machine, "objectgroup", ObjectGroupHandle, ObjectGroupBuild))
ObjectLoop == Running("Object::new") /\ Commit(ParseTag(Machine, "object", ObjectHandle, ObjectBuild))
ParseBase64Loop == Running("parse_base64") /\ Commit(ParseBase64Step(Machine))
DecodeCsvLoop == Running("decode_csv") /\ Commit(DecodeCsvStep(Machine))

NextParse ==
    \/ Parse
    \/ ParseFile
    \/ ParseWithPath
    \/ ParseTileset
    \/ ParseImplLoop
    \/ NewExternalLoop
    \/ MapLoop
    \/ TilesetInternalLoop
    \/ TilesetExternalLoop
    \/ ImageLoop
    \/ TileLoop
    \/ AnimationLoop
    \/ PropertiesLoop
    \/ LayerLoop
    \/ ImageLayerLoop
    \/ ObjectGroupLoop
    \/ ObjectLoop
    \/ ParseBase64Loop
    \/ DecodeCsvLoop

----------------------------------------------------------------------------
(* The documents and sessions the parser is run on *)

Elem(name, attributes, children) ==
    <<StartElement(name, attributes)>> \o children \o <<EndElement(name)>>

\* an attribute list with one attribute set, and with one attribute removed
With(attrs, name, value) == Insert(attrs, name, value)
Without(attrs, name) == [x \in DOMAIN attrs \ {name} |-> attrs[x]]

MapCall(reader) ==
    [entry |-> "Map::parse", reader |-> reader, path |-> PathOf("", ""), first_gid |-> <<0, 0>>]
MapWithPathCall(reader, path) ==
    [entry |-> "Map::parse_with_path", reader |-> reader, path |-> path, first_gid |-> <<0, 0>>]
MapFileCall(path) ==
    [entry |-> "Map::parse_file", reader |-> <<>>, path |-> path, first_gid |-> <<0, 0>>]
TilesetCall(reader, first_gid) ==
    [entry |-> "Tileset::parse_tileset", reader |-> reader, path |-> PathOf("", ""),
     first_gid |-> first_gid]

MapPath == PathOf("assets", "map.tmx")
TilesetPath == PathOf("assets", "tiles.tsx")

MaxRows == 2
MaxCols == 2

GidFills == {"index", "flipped", "sparse"}

\* the GID at row r, column c of a grid of w columns
GidAt(fill, r, c, w) ==
    CASE fill = "index" -> <<0, (r - 1) * w + c>>
      [] fill = "flipped" -> <<33025 + r, 772 + c>>
      [] fill = "sparse" -> IF (r + c) % 2 = 0 THEN <<0, 0>> ELSE <<Limb - 1, Limb - c>>

Grids ==
    { [r \in 1 .. h |-> [c \in 1 .. w |-> GidAt(fill, r, c, w)]] :
        h \in 1 .. MaxRows, w \in 1 .. MaxCols, fill \in GidFills }

Encodings == <<"zlib", "gzip", "base64", "csv">>

\* the text of a data element as the editor indents it
Indented(s) == <<"LF", " ", " ", " ">> \o s \o <<"LF", " ", " ">>

DataElem(grid, encoding) ==
    CASE encoding = "csv" ->
            Elem("data", [encoding |-> "csv"], <<Characters(CsvText(grid))>>)
      [] encoding = "base64" ->
            Elem("data", [encoding |-> "base64"],
                 <<Characters(Indented(Base64Encode(GridBytes(grid))))>>)
      [] encoding = "zlib" ->
            Elem("data", [encoding |-> "base64", compression |-> "zlib"],
                 <<Characters(Indented(Base64Encode(ZlibStored(GridBytes(grid)))))>>)
      [] encoding = "gzip" ->
            Elem("data", [encoding |-> "base64", compression |-> "gzip"],
                 <<Characters(Indented(Base64Encode(GzipStored(GridBytes(grid)))))>>)

Dec(n) == U32Decimal(<<0, n>>)

MapAttributes(w, h) ==
    [version |-> "1.0", orientation |-> "orthogonal", width |-> Dec(w), height |-> Dec(h),
     tilewidth |-> Dec(32), tileheight |-> Dec(32)]

ImageAttributes == [source |-> "tiles.png", width |-> Dec(64), height |-> Dec(32)]

TilesetAttributes == [name |-> "tiles", tilewidth |-> Dec(32), tileheight |-> Dec(32)]

PropertiesElem ==
    Elem("properties", <<>>,
         Elem("property", [name |-> "k", type |-> "int", value |-> Dec(7)], <<>>))

TileElem ==
    Elem("tile", [id |-> Dec(1), type |-> "wall"],
         PropertiesElem
         \o Elem("image", ImageAttributes, <<>>)
         \o Elem("objectgroup", <<>>,
                 Elem("object", [id |-> Dec(1), x |-> Dec(0), y |-> Dec(0)], <<>>))
         \o Elem("animation", <<>>,
                 Elem("frame", [tileid |-> Dec(1), duration |-> Dec(100)], <<>>)))

\* a map with one element of every kind
FullMap ==
    Elem("map", MapAttributes(2, 1),
         <<WhitespaceEvent>>
         \o PropertiesElem
         \o Elem("tileset", With(TilesetAttributes, "firstgid", Dec(1)),
                 Elem("image", ImageAttributes, <<>>) \o TileElem)
         \o Elem("layer", [name |-> "ground"], DataElem(<< << <<0, 1>>, <<0, 2>> >> >>, "csv"))
         \o Elem("imagelayer", [name |-> "sky"], Elem("image", ImageAttributes, <<>>))
         \o Elem("objectgroup", [name |-> "things"],
                 Elem("object", [x |-> Dec(1), y |-> Dec(2)], Elem("ellipse", <<>>, <<>>))
                 \o Elem("object", [x |-> Dec(3), y |-> Dec(4)],
                         Elem("polyline", [points |-> <<"0", ",", "0", " ", "1", ",", "2">>], <<>>))
                 \o Elem("object", [x |-> Dec(5), y |-> Dec(6), visible |-> <<"0">>],
                         Elem("polygon", [points |-> <<"0", ",", "0", " ", "1", ",", "2">>], <<>>)
                         \o PropertiesElem)))

\* a map whose embedded tileset also keeps the source it was embedded from
SourcedMap ==
    Elem("map", MapAttributes(1, 1),
         Elem("tileset", With(With(TilesetAttributes, "firstgid", Dec(1)), "source", "tiles.tsx"),
              Elem("image", ImageAttributes, <<>>)
              \o Elem("tile", [id |-> Dec(0)],
                      Elem("animation", <<>>,
                           Elem("frame", [tileid |-> Dec(0), duration |-> Dec(100)], <<>>))))
         \o Elem("layer", [name |-> "ground"], DataElem(<< << <<0, 1>> >> >>, "csv")))

\* the tileset file next to the map
TilesetFile == Elem("tileset", TilesetAttributes, Elem("image", ImageAttributes, <<>>))

\* the attributes C7 lists as required, by element name
RequiredAttrs(name) ==
    CASE name = "map" -> {"version", "orientation", "width", "height", "tilewidth", "tileheight"}
      [] name \in {"layer", "imagelayer"} -> {"name"}
      [] name = "image" -> {"source", "width", "height"}
      [] name = "tile" -> {"id"}
      [] name = "frame" -> {"tileid", "duration"}
      [] name = "object" -> {"x", "y"}
      [] name = "property" -> {"name", "value"}
      [] OTHER -> {}

\* the required attributes with a numeric type, and a value none of them parses
NumericAttrs == {"width", "height", "tilewidth", "tileheight", "id", "tileid", "duration", "x", "y"}
NotANumber == <<"x">>
NotAnOrientation == "sideways"

StartElements(doc) == { k \in 1 .. Len(doc) : doc[k].t = "StartElement" }

\* the documents got from doc by removing one required attribute of one
\* element, or by giving it a value that fails its coercion
Defects(doc) ==
    UNION { { [doc EXCEPT ![k].attributes = Without(@, a)] :
                a \in RequiredAttrs(doc[k].name) }
            \cup { [doc EXCEPT ![k].attributes = With(@, a, NotANumber)] :
                     a \in RequiredAttrs(doc[k].name) \cap NumericAttrs }
            \cup { [doc EXCEPT ![k].attributes = With(@, a, NotAnOrientation)] :
                     a \in RequiredAttrs(doc[k].name) \cap {"orientation"} } :
            k \in StartElements(doc) }

Subject(kind, grid, first_gid) == [kind |-> kind, grid |-> grid, first_gid |-> first_gid]

Session(subject, session_calls, files) ==
    [scenario |-> subject, calls |-> session_calls, fs |-> files]

GroundLayer == Elem("layer", [name |-> "ground"], DataElem(<< << <<0, 1>> >> >>, "csv"))

\* one grid in a map, in each of the four encodings
EncodedMap(grid, encoding) ==
    Elem("map", MapAttributes(Len(grid[1]), Len(grid)),
         Elem("tileset", With(TilesetAttributes, "firstgid", Dec(1)),
              Elem("image", ImageAttributes, <<>>))
         \o Elem("layer", [name |-> "ground", opacity |-> <<"0", ".", "5">>],
                 DataElem(grid, encoding)))

EncodingSessions ==
    { Session(Subject("encodings", grid, <<0, 0>>),
              [e \in 1 .. Len(Encodings) |-> MapCall(EncodedMap(grid, Encodings[e]))],
              <<>>) : grid \in Grids }

\* tileset elements as they stand in a tileset file: plain, with tiles and a
\* firstgid of its own, empty, with an image without a width, without a name
TilesetElements ==
    { TilesetFile,
      Elem("tileset",
           With(With(With(TilesetAttributes, "spacing", Dec(2)), "margin", Dec(1)),
                "firstgid", Dec(3)),
           Elem("image", ImageAttributes, <<>>) \o TileElem),
      Elem("tileset", TilesetAttributes, <<>>),
      Elem("tileset", TilesetAttributes,
           TileElem \o Elem("image", Without(ImageAttributes, "width"), <<>>)),
      Elem("tileset", Without(TilesetAttributes, "name"),
           Elem("image", ImageAttributes, <<>>)) }

FirstGidSamples == { <<0, 1>>, <<0, 7>>, <<1, 0>>, <<Limb - 1, Limb - 1>> }

\* the element inline in a map, with firstgid = first_gid
InlineMap(element, first_gid) ==
    Elem("map", MapAttributes(1, 1),
         [element EXCEPT ![1].attributes = With(@, "firstgid", U32Decimal(first_gid))]
         \o GroundLayer)

\* a map with a reference to a tileset file
ReferenceMap(firstgid, source) ==
    Elem("map", MapAttributes(1, 1),
         Elem("tileset", [firstgid |-> firstgid, source |-> source], <<>>) \o GroundLayer)

\* one tileset element parsed as a file of its own, inline in a map, and as
\* the file a map refers to
TilesetSessions ==
    { Session(Subject("tileset", <<>>, first_gid),
              << TilesetCall(element, first_gid),
                 MapCall(InlineMap(element, first_gid)),
                 MapWithPathCall(ReferenceMap(U32Decimal(first_gid), "tiles.tsx"), MapPath),
                 MapFileCall(MapPath) >>,
              (MapPath :> ReferenceMap(U32Decimal(first_gid), "tiles.tsx"))
                  @@ (TilesetPath :> element)) :
        element \in TilesetElements, first_gid \in FirstGidSamples }

\* a map through the three map entry points
MapSession(kind, doc) ==
    Session(Subject(kind, <<>>, <<0, 0>>),
            << MapCall(doc), MapWithPathCall(doc, MapPath), MapFileCall(MapPath) >>,
            (MapPath :> doc) @@ (TilesetPath :> TilesetFile))

DefectSessions ==
    { MapSession("defect", doc) :
        doc \in {FullMap, SourcedMap} \cup Defects(FullMap) \cup Defects(SourcedMap) }
    \cup { Session(Subject("defect", <<>>, <<0, 1>>), << TilesetCall(doc, <<0, 1>>) >>, <<>>) :
             doc \in Defects(Elem("tileset", TilesetAttributes,
                                  Elem("image", ImageAttributes, <<>>) \o TileElem)) }

\* maps with a reference: to the file next to the map, with a firstgid that is
\* no number, to a file that is not there, and after an embedded tileset
ReferenceMaps ==
    { ReferenceMap(Dec(1), "tiles.tsx"),
      ReferenceMap(NotANumber, "tiles.tsx"),
      ReferenceMap(Dec(5), "gone.tsx"),
      Elem("map", MapAttributes(1, 1),
           Elem("tileset", With(TilesetAttributes, "firstgid", Dec(1)),
                Elem("image", ImageAttributes, <<>>))
           \o Elem("tileset", [firstgid |-> Dec(9), source |-> "tiles.tsx"], <<>>)
           \o GroundLayer) }

ReferenceSessions ==
    { MapSession("reference", doc) : doc \in ReferenceMaps }
    \cup { Session(Subject("reference", <<>>, <<0, 0>>),
                   << MapFileCall(PathOf("assets", "gone.tmx")) >>, <<>>) }

\* a tileset element with a tile of every kind of child
FullTileset ==
    Elem("tileset", TilesetAttributes, Elem("image", ImageAttributes, <<>>) \o TileElem)

\* the documents whose token stream ends early: every proper prefix of doc
Prefixes(doc) == { Take(doc, n) : n \in 0 .. Len(doc) - 1 }

\* a document cut short, through the three map entry points; the tokenizer
\* reports the end of the document from there on
TruncatedMapSessions == { MapSession("truncated", doc) : doc \in Prefixes(FullMap) }

\* the same where the tokenizer reports the cut as an error
BrokenMapSessions ==
    { Session(Subject("truncated", <<>>, <<0, 0>>), << MapCall(doc \o <<XmlError>>) >>, <<>>) :
        doc \in Prefixes(FullMap) }

\* a tileset file cut short, on its own and as the file a map refers to; a
\* map given to the tileset entry point and a tileset given to the map's
TruncatedTilesetSessions ==
    { Session(Subject("truncated", <<>>, <<0, 3>>),
              << TilesetCall(doc, <<0, 3>>),
                 MapWithPathCall(ReferenceMap(Dec(3), "tiles.tsx"), MapPath) >>,
              (TilesetPath :> doc)) : doc \in Prefixes(FullTileset) }
    \cup { Session(Subject("truncated", <<>>, <<0, 3>>),
                   << TilesetCall(Elem("map", MapAttributes(1, 1), GroundLayer), <<0, 3>>),
                      TilesetCall(<<WhitespaceEvent>>, <<0, 3>>),
                      MapCall(FullTileset),
                      MapWithPathCall(<<WhitespaceEvent>>, MapPath) >>,
                   <<>>) }

TruncatedSessions == TruncatedMapSessions \cup BrokenMapSessions \cup TruncatedTilesetSessions

\* a map of width w whose one layer has a data element with these attributes
\* and this text; the tokenizer reports an all-blank text as whitespace
DataMap(w, attrs, text) ==
    Elem("map", MapAttributes(w, 1),
         Elem("layer", [name |-> "ground"],
              Elem("data", attrs,
                   << IF Trim(text) = <<>> THEN WhitespaceEvent ELSE Characters(text) >>)))

\* the data element of a byte stream in one of the base64 variants
PayloadMap(w, bytes, encoding) ==
    CASE encoding = "base64" ->
            DataMap(w, [encoding |-> "base64"], Indented(Base64Encode(bytes)))
      [] encoding = "zlib" ->
            DataMap(w, [encoding |-> "base64", compression |-> "zlib"],
                    Indented(Base64Encode(ZlibStored(bytes))))
      [] encoding = "gzip" ->
            DataMap(w, [encoding |-> "base64", compression |-> "gzip"],
                    Indented(Base64Encode(GzipStored(bytes))))

MaxBytes == 9
MaxWidth == 2

\* a byte stream of n bytes
SampleBytes(n) == [k \in 1 .. n |-> (k * 37 + 200) % 256]

ByteSubject(kind, bytes, width) == [kind |-> kind, bytes |-> bytes, width |-> width]

\* byte streams of every length up to MaxBytes, whole rows or not, in the
\* three base64 variants
ChunkSessions ==
    { Session(ByteSubject("chunks", SampleBytes(n), w),
              << MapCall(PayloadMap(w, SampleBytes(n), "base64")),
                 MapCall(PayloadMap(w, SampleBytes(n), "zlib")),
                 MapCall(PayloadMap(w, SampleBytes(n), "gzip")) >>,
              <<>>) : n \in 0 .. MaxBytes, w \in 1 .. MaxWidth }

MaxLayers == 3
LayerKinds == {"layer", "imagelayer", "objectgroup"}

\* a layer element of each kind
LayerElem(kind) ==
    CASE kind = "layer" -> GroundLayer
      [] kind = "imagelayer" ->
            Elem("imagelayer", [name |-> "sky"], Elem("image", ImageAttributes, <<>>))
      [] kind = "objectgroup" ->
            Elem("objectgroup", [name |-> "things"],
                 Elem("object", [x |-> Dec(1), y |-> Dec(2)], <<>>))

RECURSIVE LayerElems(_)
LayerElems(kinds) ==
    IF kinds = <<>> THEN <<>> ELSE LayerElem(Head(kinds)) \o LayerElems(Tail(kinds))

\* a map with a tileset whose tile embeds an objectgroup, then layers of these
\* kinds in this order
LayeredMap(tileset_attrs, tileset_children, kinds) ==
    Elem("map", MapAttributes(1, 1),
         Elem("tileset", With(tileset_attrs, "firstgid", Dec(1)), tileset_children)
         \o LayerElems(kinds))

LayerOrders == UNION { [1 .. n -> LayerKinds] : n \in 0 .. MaxLayers }

\* the layers in every order; the same after a tileset that keeps its source
\* and has an image without a width before its tile; and after a tileset with
\* a tileset element inside an element of no known name
LayerSessions ==
    { MapSession("layers",
                 LayeredMap(TilesetAttributes, Elem("image", ImageAttributes, <<>>) \o TileElem,
                            kinds)) : kinds \in LayerOrders }
    \cup { MapSession("layers",
                      LayeredMap(With(TilesetAttributes, "source", "tiles.tsx"),
                                 Elem("image", Without(ImageAttributes, "width"), <<>>)
                                 \o TileElem,
                                 kinds)) : kinds \in { <<>>, <<"layer", "objectgroup">> } }
    \cup { MapSession("layers",
                      LayeredMap(TilesetAttributes,
                                 Elem("extension", <<>>, Elem("tileset", <<>>, <<>>)) \o TileElem,
                                 kinds)) : kinds \in { <<>>, <<"layer", "objectgroup">> } }

ByteValues == 0 .. 255

\* one entry with every byte value in each of its four positions
ByteSessions ==
    { Session(ByteSubject("bytes", [SampleBytes(4) EXCEPT ![p] = v], 1),
              << MapCall(PayloadMap(1, [SampleBytes(4) EXCEPT ![p] = v], "base64")) >>,
              <<>>) : p \in 1 .. 4, v \in ByteValues }

\* the ways a csv text is laid out: as the editor writes it, with a carriage
\* return ending every line, with a trailing comma on every line and blank
\* lines around it, and with empty and blank tokens before every value
CsvStyles == <<"plain", "crlf", "blank", "gaps">>

RECURSIVE CsvTokens(_, _)
\* the values of a row separated by commas
CsvTokens(row, style) ==
    IF row = <<>> THEN <<>>
    ELSE (IF style = "gaps" THEN <<",", " ", ",">> ELSE <<>>)
         \o U32Decimal(Head(row))
         \o (IF Len(row) > 1 THEN <<",">> ELSE <<>>)
         \o CsvTokens(Tail(row), style)

\* one line of a csv text; a row without values is a line with a lone comma
CsvStyledLine(row, style) ==
    (IF row = <<>> THEN <<",">> ELSE CsvTokens(row, style))
    \o (IF style = "crlf" THEN <<"CR">> ELSE IF style = "blank" THEN <<",">> ELSE <<>>)

RECURSIVE CsvStyledLines(_, _)
CsvStyledLines(rows, style) ==
    IF rows = <<>> THEN <<>>
    ELSE (IF style = "blank" THEN <<" ", " ", "LF", "CR", "LF">> ELSE <<>>)
         \o CsvStyledLine(Head(rows), style) \o <<"LF">>
         \o CsvStyledLines(Tail(rows), style)

CsvStyledText(rows, style) == <<"LF">> \o CsvStyledLines(rows, style)

\* rows of one length, and rows of different lengths, none, and without values
CsvRowSamples ==
    Grids \cup { <<>>,
                 << << <<0, 1>>, <<0, 2>> >>, << <<0, 3>> >> >>,
                 << <<>>, << <<Limb - 1, Limb - 1>> >>, <<>> >>,
                 << << <<0, 0>>, <<1, 0>>, <<0, 7>> >> >> }

\* the same rows in every layout, in a map of width MaxWidth
CsvSessions ==
    { Session(Subject("csv", rows, <<0, 0>>),
              [e \in 1 .. Len(CsvStyles) |->
                  MapCall(DataMap(MaxWidth, [encoding |-> "csv"],
                                  CsvStyledText(rows, CsvStyles[e])))],
              <<>>) : rows \in CsvRowSamples }

\* the values of the encoding and compression attributes: absent, the names
\* the code knows, and a name it does not know
EncodingNames == <<"absent", "base64", "csv", "xml">>
CompressionNames == <<"absent", "zlib", "gzip", "lzma">>

DataAttributes(encoding, compression) ==
    (IF encoding = "absent" THEN <<>> ELSE [encoding |-> encoding])
    @@ (IF compression = "absent" THEN <<>> ELSE [compression |-> compression])

\* a text the named combination can decode when it is one the code supports
DataText(encoding, compression) ==
    IF encoding = "csv" THEN CsvStyledText(<< << <<0, 1>> >> >>, "plain")
    ELSE IF compression = "zlib" THEN Indented(Base64Encode(ZlibStored(SampleBytes(4))))
    ELSE IF compression = "gzip" THEN Indented(Base64Encode(GzipStored(SampleBytes(4))))
    ELSE Indented(Base64Encode(SampleBytes(4)))

\* every combination of an encoding and a compression
FormatSessions ==
    { Session(Subject("formats", <<>>, <<0, 0>>),
              [c \in 1 .. Len(CompressionNames) |->
                  MapCall(DataMap(1, DataAttributes(EncodingNames[e], CompressionNames[c]),
                                  DataText(EncodingNames[e], CompressionNames[c])))],
              <<>>) : e \in 1 .. Len(EncodingNames) }

\* the optional fields of each element's get_attrs! that a coercion can refuse
OptionalAttrs(name) ==
    CASE name = "map" -> {"backgroundcolor"}
      [] name = "tileset" -> {"spacing", "margin"}
      [] name = "image" -> {"trans"}
      [] name = "tile" -> {"probability"}
      [] name = "layer" -> {"opacity", "visible"}
      [] name = "imagelayer" -> {"opacity", "visible", "offsetx", "offsety"}
      [] name = "objectgroup" -> {"opacity", "visible", "color"}
      [] name = "object" -> {"id", "gid", "width", "height", "visible", "rotation"}
      [] OTHER -> {}

\* a map of every entity with none of its optional attributes
BareMap ==
    Elem("map", MapAttributes(1, 1),
         Elem("tileset", With(TilesetAttributes, "firstgid", Dec(1)),
              Elem("image", ImageAttributes, <<>>)
              \o Elem("tile", [id |-> Dec(1)],
                      Elem("objectgroup", <<>>,
                           Elem("object", [x |-> Dec(3), y |-> Dec(4)], <<>>))))
         \o GroundLayer
         \o Elem("imagelayer", [name |-> "sky"], Elem("image", ImageAttributes, <<>>))
         \o Elem("objectgroup", <<>>, Elem("object", [x |-> Dec(1), y |-> Dec(2)], <<>>)))

\* the document with one optional attribute given a value its coercion refuses
Spoiled(doc) ==
    UNION { { [doc EXCEPT ![k].attributes = With(@, a, NotANumber)] :
                a \in OptionalAttrs(doc[k].name) } : k \in StartElements(doc) }

\* the document with an attribute no get_attrs! asks for on one element
Extended(doc) ==
    { [doc EXCEPT ![k].attributes = With(@, "extension", Dec(1))] : k \in StartElements(doc) }

\* the bare map, then the same map with one attribute more
OptionalSessions ==
    { Session(Subject("optionals", <<>>, <<0, 0>>), << MapCall(BareMap), MapCall(doc) >>, <<>>) :
        doc \in Spoiled(BareMap) \cup Extended(BareMap) }

\* the element names that open a parse_tag! scope
ScopeNames ==
    {"map", "tileset", "image", "tile", "animation", "properties", "layer", "imagelayer",
     "objectgroup", "object"}

\* the document with an element no scope handles put first inside element k,
\* holding an empty element of the name of element k
Nested(doc, k) ==
    SubSeq(doc, 1, k)
    \o Elem("extension", <<>>, Elem(doc[k].name, <<>>, <<>>))
    \o SubSeq(doc, k + 1, Len(doc))

ScopeStarts(doc) == { k \in StartElements(doc) : doc[k].name \in ScopeNames }

\* each scope of the full map and of the full tileset with such a child
NestingSessions ==
    { Session(Subject("nesting", <<>>, <<0, 0>>), << MapCall(Nested(FullMap, k)) >>, <<>>) :
        k \in ScopeStarts(FullMap) }
    \cup { Session(Subject("nesting", <<>>, <<0, 1>>),
                   << TilesetCall(Nested(FullTileset, k), <<0, 1>>),
                      MapWithPathCall(ReferenceMap(Dec(1), "tiles.tsx"), MapPath) >>,
                   TilesetPath :> Nested(FullTileset, k)) :
             k \in ScopeStarts(FullTileset) }

\* maps whose base64 data element is cut short, the tokenizer reporting the
\* end of the document from there on
TruncatedDataSessions ==
    { Session(Subject("truncated", <<>>, <<0, 0>>), << MapCall(doc) >>, <<>>) :
        doc \in UNION { Prefixes(PayloadMap(1, SampleBytes(4), encoding)) :
                          encoding \in {"base64", "zlib", "gzip"} } }

\* csv tokens: no number, padded with a space before and after, 2^32, a
\* negative number, and for contrast 2^32 - 1 and a small number
CsvTokenSamples ==
    << <<"x">>, <<" ", "1">>, <<"1", " ">>,
       <<"4", "2", "9", "4", "9", "6", "7", "2", "9", "6">>, <<"-", "1">>,
       <<"4", "2", "9", "4", "9", "6", "7", "2", "9", "5">>, <<"7">> >>

\* the widths of the layers of the base64 payloads: none, and one column
PayloadWidths == {0, 1}

\* a csv layer whose second value is the token, and base64 layers of a map of
\* the width, with and without bytes
AbortSessions ==
    { Session([kind |-> "abort", token |-> CsvTokenSamples[t], width |-> 1],
              << MapCall(DataMap(1, [encoding |-> "csv"], <<"1", ",">> \o CsvTokenSamples[t])) >>,
              <<>>) : t \in 1 .. Len(CsvTokenSamples) }
    \cup { Session([kind |-> "abort", token |-> <<>>, width |-> w],
                   << MapCall(PayloadMap(w, SampleBytes(n), "base64")),
                      MapCall(PayloadMap(w, SampleBytes(n), "zlib")),
                      MapCall(PayloadMap(w, SampleBytes(n), "gzip")) >>,
                   <<>>) : w \in PayloadWidths, n \in {0, 4} }

\* the elements with a visible attribute, and the values it is given
VisibleElements == {"layer", "imagelayer", "objectgroup", "object"}
VisibleValues == <<"absent", "0", "1">>

\* the document with the attribute set to the value on every such element
WithVisible(doc, value) ==
    [k \in 1 .. Len(doc) |->
        IF value # "absent" /\ doc[k].t = "StartElement" /\ doc[k].name \in VisibleElements
        THEN [doc[k] EXCEPT !.attributes = With(@, "visible", <<value>>)]
        ELSE doc[k]]

VisibleSessions ==
    { Session([kind |-> "visible", value |-> VisibleValues[v]],
              << MapCall(WithVisible(BareMap, VisibleValues[v])) >>, <<>>) :
        v \in 1 .. Len(VisibleValues) }

Sessions ==
    EncodingSessions \cup TilesetSessions \cup DefectSessions \cup ReferenceSessions
    \cup TruncatedSessions \cup ChunkSessions \cup LayerSessions \cup ByteSessions \cup CsvSessions
    \cup FormatSessions \cup OptionalSessions
    \cup NestingSessions \cup TruncatedDataSessions
    \cup AbortSessions \cup VisibleSessions

InitParse ==
    /\ \E s \in Sessions :
          /\ scenario = s.scenario
          /\ calls = s.calls
          /\ fs = s.fs
    /\ results = <<>>
    /\ stack = <<>>
    /\ parser = NoReader
    /\ tileset_parser = NoReader
    /\ opened = <<>>

IdleParse ==
    /\ scenario = Subject("none", <<>>, <<0, 0>>)
    /\ calls = <<>>
    /\ fs = <<>>
    /\ results = <<>>
    /\ stack = <<>>
    /\ parser = NoReader
    /\ tileset_parser = NoReader
    /\ opened = <<>>

----------------------------------------------------------------------------
(* Claims about Map::get_tileset_by_gid *)

\* the positions whose first_gid is <= gid
Qualifying == { k \in 1 .. Len(tilesets) : U32Le(tilesets[k], gid) }

\* the positions holding the largest first_gid that is <= gid
MaximalQualifying ==
    { k \in Qualifying : \A j \in Qualifying : U32Le(tilesets[j], tilesets[k]) }

DistinctFirstGids ==
    \A j, k \in 1 .. Len(tilesets) : tilesets[j] = tilesets[k] => j = k

\* C1: for every list of tilesets with distinct first_gid values and every gid,
\* the lookup returns the tileset with the largest first_gid <= gid, and None
\* exactly when no tileset has first_gid <= gid.
C1_LargestFirstGidAtMostGid ==
    (gid_pc = "done" /\ DistinctFirstGids) =>
        IF Qualifying = {} THEN maximum_ts = 0 ELSE maximum_ts \in MaximalQualifying

\* two or more tilesets share the maximal first_gid <= gid
TiedMaximum == Cardinality(MaximalQualifying) >= 2

Last(S) == CHOOSE k \in S : \A j \in S : j <= k
First(S) == CHOOSE k \in S : \A j \in S : k <= j

\* C2 as stated: among tilesets sharing the maximal first_gid <= gid the lookup
\* returns the one that appears last in scan order.
C2_TieReturnsLast ==
    (gid_pc = "done" /\ TiedMaximum) => maximum_ts = Last(MaximalQualifying)

\* C2 amended: among tilesets sharing the maximal first_gid <= gid the lookup
\* returns the one that appears first in scan order when that first_gid is below
\* 2^31, and none of them when it is 2^31 or more.
C2_TieReturnsFirst ==
    (gid_pc = "done" /\ TiedMaximum) =>
        IF AsI32(tilesets[First(MaximalQualifying)])[1] = 0
        THEN maximum_ts = First(MaximalQualifying)
        ELSE maximum_ts \notin MaximalQualifying

C2_Witness ==
    /\ gid_pc = "done"
    /\ TiedMaximum
    /\ maximum_ts = First(MaximalQualifying)
    /\ Len(tilesets) = 3
    /\ MaximalQualifying = {2, 3}

----------------------------------------------------------------------------
(* Claims about Tile::new *)

TopBit(x, b) == BitAnd16(x[1], b, 16) = b
Low29(x) == <<x[1] % 8192, x[2]>>

\* C3: the horizontal, vertical and diagonal flags are the three highest-order
\* bits of the raw value (0x80000000, 0x40000000, 0x20000000); flip_h is
\* horizontal XOR diagonal and flip_v is vertical XOR diagonal.
C3_FlipsFromTopBits ==
    tile_pc = "done" =>
        /\ tile.flip_h = (TopBit(raw_id, 32768) # TopBit(raw_id, 8192))
        /\ tile.flip_v = (TopBit(raw_id, 16384) # TopBit(raw_id, 8192))

\* C4: Tile.id is the raw value with only the three flag bits cleared, that is
\* raw mod 2^29; a raw value below 2^29 is stored unchanged.
C4_IdIsLow29Bits ==
    tile_pc = "done" => tile.id = Low29(raw_id)

----------------------------------------------------------------------------
(* Claims about PropertyValue::new *)

PropComplete == prop_pc = "done" /\ {"name", "value"} \subseteq DOMAIN prop_attrs
PropTyped(t) == "type" \in DOMAIN prop_attrs /\ prop_attrs["type"] = t
PropValueIs(kind, val) == prop_result = Ok(<<prop_attrs["name"], [kind |-> kind, val |-> val]>>)
PropFails == IsErr(prop_result) /\ prop_result.kind = "Other"

\* C8: type bool, float or int gives the value parsed into that type, or an error
\* when it does not parse; type string, and a property without a type attribute,
\* give StringValue of the raw value verbatim; any other type name (color apart)
\* gives an "unknown property type" error naming the type.
C8_PropertyValueByType ==
    PropComplete =>
        LET v == prop_attrs["value"] IN
        /\ PropTyped("bool") =>
              /\ v = <<"t", "r", "u", "e">> => PropValueIs("BoolValue", TRUE)
              /\ v = <<"f", "a", "l", "s", "e">> => PropValueIs("BoolValue", FALSE)
              /\ v \notin {<<"t", "r", "u", "e">>, <<"f", "a", "l", "s", "e">>} => PropFails
        /\ PropTyped("int") =>
              /\ IsSome(ParseI32(v)) => PropValueIs("IntValue", Unwrap(ParseI32(v)))
              /\ ParseI32(v) = None => PropFails
              /\ v = <<"1", "2", "3">> =>
                    PropValueIs("IntValue", [neg |-> FALSE, mag |-> <<0, 123>>])
              /\ v = <<"-", "1", "2", "3">> =>
                    PropValueIs("IntValue", [neg |-> TRUE, mag |-> <<0, 123>>])
              /\ v \in {<<>>, <<"-">>, <<"1", ".">>, <<"#", "1">>, <<"1", "a">>,
                        <<"2", "1", "4", "7", "4", "8", "3", "6", "4", "8">>} => PropFails
        /\ PropTyped("float") =>
              /\ IsSome(ParseF32(v)) => PropValueIs("FloatValue", Unwrap(ParseF32(v)))
              /\ ParseF32(v) = None => PropFails
              /\ v \in {<<>>, <<".">>, <<"-">>, <<"e">>, <<"1", "e">>, <<"#", "1">>} => PropFails
              /\ v \in {<<"1">>, <<"1", ".">>, <<".", "1">>, <<"-", "1">>, <<"1", "2", "3">>} =>
                    IsOk(prop_result)
        /\ (PropTyped("string") \/ "type" \notin DOMAIN prop_attrs) =>
              PropValueIs("StringValue", v)
        /\ ("type" \in DOMAIN prop_attrs
              /\ prop_attrs["type"] \notin {"bool", "float", "int", "string", "color"}) =>
              prop_result = Err("Other", <<"Unknown property type", prop_attrs["type"]>>)

C8_Witness ==
    /\ prop_pc = "done"
    /\ DOMAIN prop_attrs = {"name", "value"}
    /\ prop_attrs["value"] = <<"1", "2", "3">>
    /\ prop_result = Ok(<<"k", [kind |-> "StringValue", val |-> <<"1", "2", "3">>]>>)

\* a marker character followed by exactly 6 hex digits
SixHexColor(v) ==
    /\ Len(v) = 7
    /\ \A k \in 2 .. 7 : v[k] \in Digits \cup HexLetters

\* the 24-bit RGB integer written by the 6 digits
Rgb24(v) ==
    << DigitVal(v[2]) * 16 + DigitVal(v[3]),
       DigitVal(v[4]) * 4096 + DigitVal(v[5]) * 256 + DigitVal(v[6]) * 16 + DigitVal(v[7]) >>

\* C9: for type color the call succeeds only for a marker character followed by
\* exactly 6 hex digits, giving ColorValue of the 24-bit RGB integer; every other
\* value fails with the malformed-color error.
C9_ColorNeedsSixHexDigits ==
    (PropComplete /\ PropTyped("color")) =>
        IF SixHexColor(prop_attrs["value"])
        THEN PropValueIs("ColorValue", Rgb24(prop_attrs["value"]))
        ELSE prop_result = Err("Other", <<"Improperly formatted color property">>)

----------------------------------------------------------------------------------------------------------------------------------------
(* Claims about the parse entry points *)

ResultOf(i) == results[i].result

\* the document call i parsed
DocOf(i) ==
    IF calls[i].entry # "Map::parse_file" THEN calls[i].reader
    ELSE IF calls[i].path \in DOMAIN fs THEN fs[calls[i].path] ELSE <<>>

\* C5: for the same height x width grid of GIDs, a map whose layer data is
\* base64+zlib, base64+gzip, plain base64 or csv (one line per row) parses to
\* equal Map values: the tile matrix is the grid, and the whole Map is the same
\* whichever encoding was used.
C5_EncodingInvariance ==
    scenario.kind = "encodings" =>
        \A i \in 1 .. Len(results) :
            /\ IsOk(ResultOf(i))
            /\ ResultOf(i).val.layers[1].tiles = scenario.grid
            /\ ResultOf(i) = ResultOf(1)

C5_Witness ==
    /\ scenario.kind = "encodings"
    /\ Len(results) = Len(Encodings)
    /\ Len(scenario.grid) = 2
    /\ Len(scenario.grid[1]) = 2
    /\ scenario.grid[2][1] = <<33027, 773>>
    /\ IsOk(ResultOf(Len(Encodings)))

\* C6: a tileset parsed through the external-file path with first_gid g (the
\* standalone entry point, or a map's reference resolved from the map path) is
\* equal to the same element parsed inline in a map with firstgid = g, and its
\* first_gid is g; when the one yields no tileset, neither does the other.
C6_ExternalEqualsInline ==
    (scenario.kind = "tileset" /\ results # <<>>) =>
        IF IsOk(ResultOf(1))
        THEN /\ ResultOf(1).val.first_gid = scenario.first_gid
             /\ \A i \in 2 .. Len(results) :
                   /\ IsOk(ResultOf(i))
                   /\ ResultOf(i).val.tilesets = <<ResultOf(1).val>>
        ELSE \A i \in 2 .. Len(results) : ~ IsOk(ResultOf(i))

C6_Witness ==
    /\ scenario.kind = "tileset"
    /\ scenario.first_gid = <<Limb - 1, Limb - 1>>
    /\ Len(results) = 4
    /\ IsOk(ResultOf(1))
    /\ ResultOf(1).val.tiles # <<>>
    /\ IsOk(ResultOf(4))
    /\ ResultOf(4).val.tilesets[1].first_gid = <<Limb - 1, Limb - 1>>

\* an element of the document lacks one of its required attributes, or carries
\* one with a value that fails its coercion
LacksRequired(doc) ==
    \E k \in StartElements(doc) : \E a \in RequiredAttrs(doc[k].name) :
        \/ a \notin DOMAIN doc[k].attributes
        \/ a \in NumericAttrs /\ doc[k].attributes[a] = NotANumber
        \/ a = "orientation" /\ doc[k].attributes[a] = NotAnOrientation

\* C7: when a map, layer, imagelayer, image, tile, frame, object or property
\* element lacks a required attribute, or carries one whose value fails its
\* coercion, every entry point returns a MalformedAttributes error.
C7_MissingRequiredIsMalformed ==
    \A i \in 1 .. Len(results) :
        LacksRequired(DocOf(i)) =>
            IsErr(ResultOf(i)) /\ ResultOf(i).kind = "MalformedAttributes"

\* the nesting depth of event k of a document
Depth(doc, k) ==
    Cardinality({ j \in 1 .. k - 1 : doc[j].t = "StartElement" })
        - Cardinality({ j \in 1 .. k - 1 : doc[j].t = "EndElement" })

\* the references of a map document: the children of the map element that are
\* tileset elements with a firstgid and a source only
References(doc) ==
    { k \in StartElements(doc) :
        /\ doc[1].t = "StartElement" /\ doc[1].name = "map"
        /\ Depth(doc, k) = 1
        /\ doc[k].name = "tileset"
        /\ DOMAIN doc[k].attributes = {"firstgid", "source"} }

\* C10: when the parse reaches a reference, Map::parse fails with an error
\* and opens no file; parse_with_path and parse_file open the map path with
\* its file name replaced by the source value.
C10_ReferenceNeedsMapPath ==
    \A i \in 1 .. Len(results) :
        \A k \in References(DocOf(i)) :
            k <= results[i].pulled =>
                IF calls[i].entry = "Map::parse"
                THEN IsErr(ResultOf(i)) /\ results[i].opened = <<>>
                ELSE ParseU32(DocOf(i)[k].attributes.firstgid) # None =>
                        \E j \in 1 .. Len(results[i].opened) :
                            results[i].opened[j]
                                = WithFileName(calls[i].path, DocOf(i)[k].attributes.source)

C10_Witness ==
    /\ scenario.kind = "reference"
    /\ Len(results) >= 2
    /\ calls[1].entry = "Map::parse"
    /\ References(DocOf(1)) # {}
    /\ IsErr(ResultOf(1))
    /\ ResultOf(1).kind = "Other"
    /\ results[1].opened = <<>>
    /\ calls[2].entry = "Map::parse_with_path"
    /\ results[2].opened = <<TilesetPath>>
    /\ IsOk(ResultOf(2))

\* the constructors whose loop is parse_tag!
ParseTagScopes ==
    {"Map::new", "Tileset::new_internal", "Tileset::parse_external_tileset", "Image::new",
     "Tile::new", "parse_animation", "parse_properties", "Layer::new", "ImageLayer::new",
     "ObjectGroup::new", "Object::new"}

\* the document has no start element of that name and no tokenizer error
NoRoot(doc, name) ==
    \A k \in 1 .. Len(doc) :
        /\ doc[k].t # "Error"
        /\ doc[k].t = "StartElement" => doc[k].name # name

\* the root the entry point of call i searches for
RootOf(i) == IF calls[i].entry = "Tileset::parse_tileset" THEN "tileset" ELSE "map"

\* call i had a token stream to read
HadStream(i) == calls[i].entry = "Map::parse_file" => calls[i].path \in DOMAIN fs

\* a call whose token stream ends before its root element returns PrematureEnd
RootSearchEnds ==
    \A i \in 1 .. Len(results) :
        (HadStream(i) /\ NoRoot(DocOf(i), RootOf(i))) =>
            IsErr(ResultOf(i)) /\ ResultOf(i).kind = "PrematureEnd"

\* a parse_tag! scope that is handed the end of the document
ScopeAtEnd ==
    /\ stack # <<>>
    /\ stack[Len(stack)].fn \in ParseTagScopes
    /\ NextEvent(Reader(Machine)).t = "EndDocument"

InsideInternalTileset == \E j \in 1 .. Len(stack) : stack[j].fn = "Tileset::new_internal"

\* the scope returns PrematureEnd: the call ends with it, unless the scope is
\* inside Tileset::new_internal, whose caller takes the error
ScopeEnds ==
    ScopeAtEnd =>
        IF InsideInternalTileset
        THEN \A j \in 1 .. Len(stack') : stack'[j].fn # "Tileset::new_internal"
        ELSE /\ stack' = <<>>
             /\ Len(results') = Len(results) + 1
             /\ IsErr(results'[Len(results')].result)
             /\ results'[Len(results')].result.kind = "PrematureEnd"

\* C11: when the token stream reaches end-of-document before a map start
\* element (map entry points) or a tileset start element (the tileset entry
\* point), the parse returns PrematureEnd; and a parse_tag! scope that reaches
\* end-of-document before its close tag returns PrematureEnd.
C11_PrematureEnd == [](RootSearchEnds) /\ [][ScopeEnds]_vars

C11_Witness ==
    /\ scenario.kind = "truncated"
    /\ Len(results) = 3
    /\ \A i \in 1 .. 3 :
          /\ ResultOf(i) = Err("PrematureEnd", <<"Document ended before we expected.">>)
          /\ results[i].pulled = Len(DocOf(i))
          /\ Len(DocOf(i)) > 20

\* the tile matrix of the one layer of the map call i returned
TilesOf(i) == ResultOf(i).val.layers[1].tiles

\* C12: for the base64 variants, a byte stream of n bytes decoded with layer
\* width w gives exactly floor(n / (4 * w)) rows of exactly w entries each; the
\* bytes after the last whole row are discarded.
C12_RowsAreFloor ==
    scenario.kind = "chunks" =>
        \A i \in 1 .. Len(results) :
            /\ IsOk(ResultOf(i))
            /\ Len(TilesOf(i)) = Len(scenario.bytes) \div (4 * scenario.width)
            /\ \A r \in 1 .. Len(TilesOf(i)) : Len(TilesOf(i)[r]) = scenario.width

\* the elements of a document that lack a required attribute or carry one
\* whose value fails its coercion, and the first of them
DefectPositions(doc) ==
    { k \in StartElements(doc) :
        \E a \in RequiredAttrs(doc[k].name) :
            \/ a \notin DOMAIN doc[k].attributes
            \/ a \in NumericAttrs /\ doc[k].attributes[a] = NotANumber
            \/ a = "orientation" /\ doc[k].attributes[a] = NotAnOrientation }
FirstDefect(doc) == CHOOSE k \in DefectPositions(doc) : \A j \in DefectPositions(doc) : k <= j

\* the error the constructor of an element raises for its required attributes
DefectError(name) ==
    CASE name = "map" -> "map must have a version, width and height with correct types"
      [] name \in {"layer", "imagelayer"} -> "layer must have a name"
      [] name = "image" -> "image must have a source, width and height with correct types"
      [] name = "tile" -> "tile must have an id with the correct type"
      [] name = "frame" -> "A frame must have tileid and duration"
      [] name = "object" -> "objects must have an x and a y number"
      [] name = "property" -> "property must have a name and a value"

\* C13: the error a map entry point returns is the first error raised by a
\* nested constructor in document order, unchanged, and no token is pulled
\* after it is raised; an error raised by a child of a self-contained tileset
\* is the error surfaced.
C13_FirstErrorSurfaces ==
    \A i \in 1 .. Len(results) :
        (/\ calls[i].entry # "Tileset::parse_tileset"
         /\ HadStream(i)
         /\ DefectPositions(DocOf(i)) # {}) =>
            /\ ResultOf(i) = Err("MalformedAttributes",
                                 <<DefectError(DocOf(i)[FirstDefect(DocOf(i))].name)>>)
            /\ results[i].pulled = FirstDefect(DocOf(i))

\* event k of the document is inside a tile element
InsideTile(doc, k) ==
    \E j \in 1 .. k - 1 :
        /\ doc[j].t = "StartElement" /\ doc[j].name = "tile"
        /\ \A e \in j + 1 .. k - 1 : ~ (doc[e].t = "EndElement" /\ doc[e].name = "tile")

\* the layer, imagelayer and objectgroup elements of a document that are not
\* embedded in a tile
LayerElements(doc) ==
    { k \in StartElements(doc) :
        doc[k].name \in {"layer", "imagelayer", "objectgroup"} /\ ~ InsideTile(doc, k) }

\* the kind and index of every layer of a Map
IndexedLayers(map) ==
    { <<"layer", map.layers[j].layer_index>> : j \in 1 .. Len(map.layers) }
    \cup { <<"imagelayer", map.image_layers[j].layer_index>> : j \in 1 .. Len(map.image_layers) }
    \cup { <<"objectgroup", UnwrapOr(map.object_groups[j].layer_index, -1)>> :
             j \in 1 .. Len(map.object_groups) }

\* the objectgroups embedded in the tiles of a Map
EmbeddedGroups(map) ==
    UNION { { map.tilesets[t].tiles[j].objectgroup : j \in 1 .. Len(map.tilesets[t].tiles) } :
            t \in 1 .. Len(map.tilesets) } \ {None}

\* C14: in every successfully parsed Map the k-th layer, imagelayer or
\* objectgroup element in document order (the three kinds counted together,
\* from 0) has layer_index k, so that the indices are exactly 0 .. n-1; an
\* objectgroup embedded in a tile has layer_index None and takes no index.
C14_LayerIndexInDocumentOrder ==
    \A i \in 1 .. Len(results) :
        (calls[i].entry # "Tileset::parse_tileset" /\ IsOk(ResultOf(i))) =>
            LET doc == DocOf(i)
                map == ResultOf(i).val
            IN  /\ Len(map.layers) + Len(map.image_layers) + Len(map.object_groups)
                       = Cardinality(LayerElements(doc))
                /\ \A k \in LayerElements(doc) :
                      <<doc[k].name, Cardinality({ j \in LayerElements(doc) : j < k })>>
                          \in IndexedLayers(map)
                /\ \A g \in EmbeddedGroups(map) : Unwrap(g).layer_index = None

\* the 32-bit value of the four bytes from offset on (offset counted from 0),
\* least significant first: b0 + 256 * b1 + 65536 * b2 + 16777216 * b3
LittleEndianAt(bytes, offset) ==
    << bytes[offset + 3] + 256 * bytes[offset + 4], bytes[offset + 1] + 256 * bytes[offset + 2] >>

\* C15: in a byte-stream decode with width w the entry at row i, column j
\* (from 0) is b0 + 256*b1 + 65536*b2 + 16777216*b3 for the four bytes b0..b3
\* from offset 4 * (i * w + j), for every byte value in every position, with
\* no wrap-around of the 32-bit result.
C15_LittleEndianEntries ==
    scenario.kind \in {"chunks", "bytes"} =>
        \A n \in 1 .. Len(results) :
            IsOk(ResultOf(n)) =>
                \A i \in 1 .. Len(TilesOf(n)) : \A j \in 1 .. Len(TilesOf(n)[i]) :
                    TilesOf(n)[i][j]
                        = LittleEndianAt(scenario.bytes,
                                         4 * ((i - 1) * scenario.width + (j - 1)))

C15_Witness ==
    /\ scenario.kind = "bytes"
    /\ scenario.bytes[4] = 255
    /\ Len(results) = 1
    /\ IsOk(ResultOf(1))
    /\ TilesOf(1) = << << <<255 * 256 + scenario.bytes[3],
                           scenario.bytes[2] * 256 + scenario.bytes[1]>> >> >>

\* C16: for csv tile data the result has one row per non-blank line of the
\* text, in order, and row i holds the values of that line's non-empty tokens
\* in order, carriage returns stripped; blank lines and empty tokens add
\* nothing, and the layer width does not shape the rows.
C16_CsvRowsAreLines ==
    scenario.kind = "csv" =>
        \A i \in 1 .. Len(results) : IsOk(ResultOf(i)) /\ TilesOf(i) = scenario.grid

C16_Witness ==
    /\ scenario.kind = "csv"
    /\ Len(results) = Len(CsvStyles)
    /\ Len(scenario.grid) = 2
    /\ Len(scenario.grid[1]) = 2
    /\ Len(scenario.grid[2]) = 1
    /\ \A i \in 1 .. Len(CsvStyles) : IsOk(ResultOf(i)) /\ Len(TilesOf(i)[2]) = 1

\* the data element of a document with one, and its two attributes
DataAt(doc) == CHOOSE k \in StartElements(doc) : doc[k].name = "data"
AttributeOr(attrs, name, default) == IF name \in DOMAIN attrs THEN attrs[name] ELSE default

\* the combinations parse_data is to decode
Supported(encoding, compression) ==
    \/ encoding = "csv" /\ compression = "absent"
    \/ encoding = "base64" /\ compression \in {"absent", "zlib", "gzip"}

\* C17: parse_data succeeds only for csv without compression and for base64
\* without compression, with zlib and with gzip; every other combination of
\* the two attributes returns an error without decoding any data.
C17_OnlyFourFormats ==
    scenario.kind = "formats" =>
        \A i \in 1 .. Len(results) :
            LET doc == DocOf(i)
                attrs == doc[DataAt(doc)].attributes
            IN  IF Supported(AttributeOr(attrs, "encoding", "absent"),
                             AttributeOr(attrs, "compression", "absent"))
                THEN IsOk(ResultOf(i)) /\ Len(TilesOf(i)) = 1
                ELSE IsErr(ResultOf(i)) /\ results[i].pulled = DataAt(doc)

C17_Witness ==
    /\ scenario.kind = "formats"
    /\ Len(results) = Len(CompressionNames)
    /\ DocOf(1)[DataAt(DocOf(1))].attributes = [encoding |-> "csv"]
    /\ IsOk(ResultOf(1))
    /\ DocOf(2)[DataAt(DocOf(2))].attributes = [encoding |-> "csv", compression |-> "zlib"]
    /\ IsErr(ResultOf(2))
    /\ results[2].pulled = DataAt(DocOf(2))

\* the defaults of the entities of a map parsed from a document without any
\* optional attribute
HasDefaults(map) ==
    /\ map.background_color = None
    /\ map.tilesets[1].spacing = <<0, 0>> /\ map.tilesets[1].margin = <<0, 0>>
    /\ map.tilesets[1].images[1].transparent_color = None
    /\ map.tilesets[1].tiles[1].probability = F32One
    /\ map.layers[1].opacity = F32One /\ map.layers[1].visible = TRUE
    /\ map.image_layers[1].opacity = F32One /\ map.image_layers[1].visible = TRUE
    /\ map.image_layers[1].offset_x = F32Zero /\ map.image_layers[1].offset_y = F32Zero
    /\ \A g \in {map.object_groups[1], Unwrap(map.tilesets[1].tiles[1].objectgroup)} :
          /\ g.opacity = F32One /\ g.visible = TRUE /\ g.name = "" /\ g.color = None
          /\ g.objects[1].rotation = F32Zero /\ g.objects[1].gid = <<0, 0>>
          /\ g.objects[1].id = <<0, 0>> /\ g.objects[1].visible = TRUE

\* C18: an optional attribute that is absent, or whose value its coercion
\* refuses, is no error: the field takes its default (opacity 1.0, visible
\* true, offsets 0.0, spacing and margin 0, probability 1.0, rotation 0, gid 0,
\* an empty objectgroup name), and an attribute no field asks for changes
\* nothing in the result.
C18_OptionalsDefault ==
    scenario.kind = "optionals" =>
        \A i \in 1 .. Len(results) :
            /\ IsOk(ResultOf(i))
            /\ HasDefaults(ResultOf(i).val)
            /\ ResultOf(i) = ResultOf(1)

\* a layer whose opacity is no number was parsed to the same map as the bare one
C18_Witness ==
    /\ scenario.kind = "optionals"
    /\ Len(results) = 2
    /\ \E k \in StartElements(DocOf(2)) :
          /\ DocOf(2)[k].name = "layer"
          /\ "opacity" \in DOMAIN DocOf(2)[k].attributes
          /\ DocOf(2)[k].attributes["opacity"] = NotANumber
    /\ IsOk(ResultOf(2))
    /\ ResultOf(2).val.layers[1].opacity = F32One
    /\ ResultOf(2) = ResultOf(1)

\* the close tag and the handled start tags of each parse_tag! scope
CloseTagOf(fn) ==
    CASE fn = "Map::new" -> "map"
      [] fn \in {"Tileset::new_internal", "Tileset::parse_external_tileset"} -> "tileset"
      [] fn = "Image::new" -> "image"
      [] fn = "Tile::new" -> "tile"
      [] fn = "parse_animation" -> "animation"
      [] fn = "parse_properties" -> "properties"
      [] fn = "Layer::new" -> "layer"
      [] fn = "ImageLayer::new" -> "imagelayer"
      [] fn = "ObjectGroup::new" -> "objectgroup"
      [] fn = "Object::new" -> "object"
HandledBy(fn) ==
    CASE fn = "Map::new" -> {"tileset", "layer", "imagelayer", "properties", "objectgroup"}
      [] fn \in {"Tileset::new_internal", "Tileset::parse_external_tileset"} ->
            {"image", "properties", "tile"}
      [] fn = "Image::new" -> {""}
      [] fn = "Tile::new" -> {"image", "properties", "objectgroup", "animation"}
      [] fn = "parse_animation" -> {"frame"}
      [] fn = "parse_properties" -> {"property"}
      [] fn = "Layer::new" -> {"data", "properties"}
      [] fn = "ImageLayer::new" -> {"image", "properties"}
      [] fn = "ObjectGroup::new" -> {"object"}
      [] fn = "Object::new" -> {"ellipse", "polyline", "polygon", "properties"}

\* a parse_tag! scope is about to be handed that kind of token
ScopeSees(t) ==
    /\ stack # <<>>
    /\ stack[Len(stack)].fn \in ParseTagScopes
    /\ NextEvent(Reader(Machine)).t = t

\* the reader of the scope on top has moved by one token
PulledOne ==
    IF stack[Len(stack)].stream = "parser"
    THEN parser'.pos = parser.pos + 1 /\ parser'.doc = parser.doc
    ELSE tileset_parser'.pos = tileset_parser.pos + 1 /\ tileset_parser'.doc = tileset_parser.doc

\* an end tag of the scope's name ends the scope, whatever element it closes:
\* the frame is gone, and the call is over with Ok when it was the last one
ScopeCloses ==
    (ScopeSees("EndElement")
        /\ NextEvent(Reader(Machine)).name = CloseTagOf(stack[Len(stack)].fn)) =>
        /\ Len(stack') < Len(stack)
        /\ \A j \in 1 .. Len(stack') : stack'[j].fn = stack[j].fn
        /\ stack' = <<>> => (Len(results') = Len(results) + 1
                             /\ IsOk(results'[Len(results')].result))

\* any other end tag, and a start tag without a handler, is passed over
ScopePassesOver ==
    (\/ ScopeSees("EndElement")
          /\ NextEvent(Reader(Machine)).name # CloseTagOf(stack[Len(stack)].fn)
     \/ ScopeSees("StartElement")
          /\ NextEvent(Reader(Machine)).name \notin HandledBy(stack[Len(stack)].fn)) =>
        stack' = stack /\ PulledOne /\ results' = results

\* the end tag of the empty map inside the unhandled child of the root
InnerMapEnd(doc) ==
    CHOOSE k \in 1 .. Len(doc) :
        /\ doc[k].t = "EndElement" /\ doc[k].name = "map"
        /\ \A j \in 1 .. k - 1 : ~ (doc[j].t = "EndElement" /\ doc[j].name = "map")

\* a map whose first child is unhandled and holds a map element ends there,
\* with none of the children that follow
RootClosesEarly ==
    scenario.kind = "nesting" =>
        \A i \in 1 .. Len(results) :
            (calls[i].entry = "Map::parse" /\ DocOf(i) = Nested(FullMap, 1)) =>
                /\ IsOk(ResultOf(i))
                /\ results[i].pulled = InnerMapEnd(DocOf(i))
                /\ results[i].pulled < Len(DocOf(i))
                /\ ResultOf(i).val.tilesets = <<>> /\ ResultOf(i).val.layers = <<>>
                /\ ResultOf(i).val.image_layers = <<>> /\ ResultOf(i).val.object_groups = <<>>

Iteration(m) ==
    LET fn == Top(m).fn
    IN  CASE fn = "Map::parse_impl" -> ParseImplStep(m)
          [] fn = "Tileset::new_external" -> NewExternalStep(m)
          [] fn = "Map::new" -> ParseTag(m, "map", MapHandle, MapBuild)
          [] fn = "Tileset::new_internal" -> ParseTag(m, "tileset", TilesetHandle, TilesetBuild)
          [] fn = "Tileset::parse_external_tileset" ->
                ParseTag(m, "tileset", TilesetHandle, TilesetBuild)
          [] fn = "Image::new" -> ParseTag(m, "image", ImageHandle, ImageBuild)
          [] fn = "Tile::new" -> ParseTag(m, "tile", TileHandle, TileBuild)
          [] fn = "parse_animation" -> ParseTag(m, "animation", AnimationHandle, AnimationBuild)
          [] fn = "parse_properties" ->
                ParseTag(m, "properties", PropertiesHandle, PropertiesBuild)
          [] fn = "Layer::new" -> ParseTag(m, "layer", LayerHandle, LayerBuild)
          [] fn = "ImageLayer::new" ->
                ParseTag(m, "imagelayer", ImageLayerHandle, ImageLayerBuild)
          [] fn = "ObjectGroup::new" ->
                ParseTag(m, "objectgroup", ObjectGroupHandle, ObjectGroupBuild)
          [] fn = "Object::new" -> ParseTag(m, "object", ObjectHandle, ObjectBuild)
          [] fn = "parse_base64" -> ParseBase64Step(m)
          [] fn = "decode_csv" -> DecodeCsvStep(m)

C21_DataNeverAborts ==
    scenario.kind = "abort" =>
        \A i \in 1 .. Len(results) : ResultOf(i).tag \in {"Ok", "Err"}

\* the visible fields of the entities of a map: its layer, its image layer,
\* its object groups (the map's and the tile's) and their objects
GroupsOf(map) == {map.object_groups[1], Unwrap(map.tilesets[1].tiles[1].objectgroup)}
LayerVisibles(map) ==
    {map.layers[1].visible, map.image_layers[1].visible} \cup { g.visible : g \in GroupsOf(map) }
ObjectVisibles(map) == { g.objects[1].visible : g \in GroupsOf(map) }

\* C22: the visible attribute means the same on layer, imagelayer, objectgroup
\* and object: "0" gives false, "1" gives true, and without the attribute the
\* entity is visible.
C22_VisibleIsUniform ==
    scenario.kind = "visible" =>
        \A i \in 1 .. Len(results) :
            /\ IsOk(ResultOf(i))
            /\ LayerVisibles(ResultOf(i).val) \cup ObjectVisibles(ResultOf(i).val)
                  = {scenario.value # "0"}

\* a u32 of 2^31 or more
AtLeast2Pow31(x) == x[1] >= Limb \div 2

\* C23: the lookup is right over the whole u32 range: a tileset whose
\* first_gid is 2^31 or more is returned when its first_gid is the largest
\* that is <= gid; comparing first_gid values neither wraps nor changes sign.
C23_HighFirstGidSelected ==
    (/\ gid_pc = "done"
     /\ MaximalQualifying # {}
     /\ \A k \in MaximalQualifying : AtLeast2Pow31(tilesets[k])) =>
        maximum_ts \in MaximalQualifying

----------------
(* Specifications *)

InitSpecGid == InitGid /\ IdleTile /\ IdleProp /\ IdleParse
SpecGid == InitSpecGid /\ [][NextGid]_vars

InitSpecTile == IdleGid /\ InitTile /\ IdleProp /\ IdleParse
SpecTile == InitSpecTile /\ [][NextTile]_vars

InitSpecProp == IdleGid /\ IdleTile /\ InitProp /\ IdleParse
SpecProp == InitSpecProp /\ [][NextProp]_vars

InitSpecParse == IdleGid /\ IdleTile /\ IdleProp /\ InitParse
SpecParse == InitSpecParse /\ [][NextParse]_vars

====
